---- MODULE Spec2Model ----
(***************************************************************************)
(* Verification model of the reddit-crawler collection pipeline:           *)
(*   - URLCollector (src/v3/stage1_collect_urls.py and                     *)
(*     src/stage1_collect_urls.py): paginated, deduplicating frontier      *)
(*     builder with checkpoint / resume;                                   *)
(*   - RedditCrawler.collect_post_urls (src/crawler.py): quota partition   *)
(*     and multi-source collection with a shared seen-ID set;              *)
(*   - PostCrawler.crawl_posts (src/stage2_crawl_posts_pullpush.py,        *)
(*     src/stage2_crawl_posts_reddit.py): store-backed fetch loop;         *)
(*   - _atomic_write_json; the comment tree builders.                      *)
(* Each component has its own position variable whose value "off" keeps    *)
(* its actions disabled in the specifications of the other components.     *)
(***************************************************************************)
EXTENDS Integers, Sequences, FiniteSets, TLC

(***************************************************************************)
(* Bounds of the model (not program constants).                            *)
(***************************************************************************)
MaxId == 2          \* item IDs the upstream listing can mention: 1..MaxId
MaxPosts == 3       \* max_posts values a run can be configured with: 1..MaxPosts
MaxPageLen == 2     \* records per listing page
MaxRuns == 2        \* URLCollector runs (process starts) in one behaviour

(***************************************************************************)
(* Program constants.                                                      *)
(***************************************************************************)
HttpErrorLimit == 3      \* non-200 status / unexpected exception: break at 3
RequestErrorLimit == 5   \* timeout / request exception / bad JSON: break at 5
ZeroNewLimit == 3        \* consecutive pages without new items
AttemptLimit == 5        \* attempts without a new link (v1 multi-source collection)
SaveEveryNew == 50       \* periodic save: new items since the last save
SaveEveryTotal == 250    \* periodic save: total is a multiple of this

Ids == 1..MaxId
NoId == 0                \* a missing / falsy "id" (and: the regex did not match)
NoTs == 0                \* a missing / falsy "created_utc"
CreatedAt(id) == id       \* created_utc of the record of an ID (truthy)
InitialBefore == MaxId + 1  \* self.before_timestamp of a fresh instance (truthy)

Variants == {"v3", "root"}

(***************************************************************************)
(* Generic helpers.                                                        *)
(***************************************************************************)
Range(s) == {s[i] : i \in 1..Len(s)}

SeqsUpTo(S, n) == UNION {[1..k -> S] : k \in 0..n}

Prefix(s, n) == SubSeq(s, 1, IF n < Len(s) THEN n ELSE Len(s))

NoDuplicates(s) == \A i, j \in 1..Len(s) : i # j => s[i] # s[j]

(***************************************************************************)
(* Upstream listing records.  A permalink is /r/<sub>/comments/<id>/<slug>/*)
(* and carries the ID of its own record; two records of one ID may differ *)
(* in slug, i.e. be different reference strings.                           *)
(***************************************************************************)
Permalink(id, slug) == [pid |-> id, slug |-> slug]

ListingPosts ==
    {[id |-> i, permalink |-> Permalink(i, 1), created_utc |-> CreatedAt(i), deleted |-> FALSE] :
        i \in Ids}
    \cup {[id |-> 1, permalink |-> Permalink(1, 2), created_utc |-> CreatedAt(1), deleted |-> FALSE]}
    \cup {[id |-> MaxId, permalink |-> Permalink(MaxId, 1), created_utc |-> CreatedAt(MaxId),
           deleted |-> TRUE]}
    \cup {[id |-> NoId, permalink |-> Permalink(1, 1), created_utc |-> CreatedAt(1),
           deleted |-> FALSE]}

Pages == SeqsUpTo(ListingPosts, MaxPageLen) \ {<<>>}

\* post_url = "https://www.reddit.com" + permalink
PostUrl(permalink) == [host |-> "www.reddit.com", path |-> permalink]

\* re.search(r'/comments/([a-zA-Z0-9]+)/', url): the path segment after the marker
_extract_post_id(url) == url.path.pid

UrlEntry(post) == [url |-> PostUrl(post.permalink), created_utc |-> post.created_utc]

ItemIds(urls) == [i \in 1..Len(urls) |-> _extract_post_id(urls[i].url)]

_is_deleted_post(post) == post.deleted

\* The input references: the listing of the subreddit, and the detail page of
\* one of its items.  Both name the same subreddit, hence the same state file.
ListingUrl == [host |-> "www.reddit.com", path |-> [pid |-> NoId, slug |-> 0]]

ItemUrl == PostUrl(Permalink(1, 1))

TargetUrls == {ListingUrl, ItemUrl}

\* "/comments/" in target_url
HasCommentsMarker(target_url) == target_url.path.pid # NoId

\* what URLCollector.collect_post_urls returns for a single item (line 200)
SingleItemList(target_url) == <<[url |-> target_url]>>

(***************************************************************************)
(* URLCollector._process_api_response: one pass over a page.               *)
(* The accumulator is [urls, ids, new, dup, del].                          *)
(***************************************************************************)
ProcessOne_NoDedup(acc, post, max_posts) ==
    IF Len(acc.urls) >= max_posts THEN acc
    ELSE IF post.id = NoId \/ post.created_utc = NoTs THEN acc
    ELSE IF _is_deleted_post(post)
         THEN [acc EXCEPT !.del = @ + 1, !.ids = @ \cup {post.id}]
    ELSE [acc EXCEPT !.urls = Append(@, UrlEntry(post)),
                     !.ids = @ \cup {post.id},
                     !.new = @ + 1]

\* a new item is counted and neither recorded nor appended
ProcessOne_Forgets(acc, post, max_posts) ==
    IF Len(acc.urls) >= max_posts THEN acc
    ELSE IF post.id = NoId \/ post.created_utc = NoTs THEN acc
    ELSE IF post.id \in acc.ids THEN [acc EXCEPT !.dup = @ + 1]
    ELSE IF _is_deleted_post(post)
         THEN [acc EXCEPT !.del = @ + 1, !.ids = @ \cup {post.id}]
    ELSE [acc EXCEPT !.new = @ + 1]

ProcessOne(acc, post, max_posts) ==
    IF Len(acc.urls) >= max_posts THEN acc                     \* break
    ELSE IF post.id = NoId \/ post.created_utc = NoTs THEN acc \* continue
    ELSE IF post.id \in acc.ids THEN [acc EXCEPT !.dup = @ + 1]
    ELSE IF _is_deleted_post(post)
         THEN [acc EXCEPT !.del = @ + 1, !.ids = @ \cup {post.id}]
    ELSE [acc EXCEPT !.urls = Append(@, UrlEntry(post)),
                     !.ids = @ \cup {post.id},
                     !.new = @ + 1]

RECURSIVE ProcessFrom(_, _, _, _)
ProcessFrom(acc, posts, k, max_posts) ==
    IF k > Len(posts) THEN acc
    ELSE ProcessFrom(ProcessOne(acc, posts[k], max_posts), posts, k + 1, max_posts)

_process_api_response(new_posts, urls, ids, max_posts) ==
    ProcessFrom([urls |-> urls, ids |-> ids, new |-> 0, dup |-> 0, del |-> 0],
                new_posts, 1, max_posts)


(***************************************************************************)
(* State.  Every component has its own variables; the tuples Not<X> name   *)
(* the variables an action of component X leaves alone.                    *)
(***************************************************************************)
VARIABLES
    \* ---- URLCollector ----
    variant,               \* which URLCollector source file runs
    cpc,                   \* "off" | "idle" | "loop" | "returned"
    max_posts,             \* self.max_posts of the running instance
    collected_urls,        \* collected_urls (list of {url, created_utc})
    scanned_post_ids,      \* scanned_post_ids / collected_post_ids (set)
    before,                \* the before cursor
    consecutive_errors,
    consecutive_zero_new,
    last_save_count,
    state_file,            \* the persisted frontier state document
    url_list,              \* what run() / collect_post_urls returned
    exit_reason,           \* why the last run ended
    runs,                  \* number of runs started
    requested,             \* the current run has issued a listing request
    ckpt_mem,              \* in-memory state at the last checkpoint write
    file_at_start,         \* the persisted state document when this run started
    subreddit_url,         \* self.subreddit_url, the input reference
    page_log               \* what the listing requests of this run did (history)

VARIABLES
    \* ---- RedditCrawler (multi-source collection) ----
    mpc,                          \* "off" | "init" | "scroll" | "done"
    sampling_ratios,              \* self.sampling_ratios: source type -> ratio
    mc_max_posts,                 \* self.max_posts of the RedditCrawler
    mc_variant,                   \* "crawler" (src/crawler.py) or "v1" (src/v1/crawler.py)
    sampling_counts,              \* source type -> quota
    sampling_configs,             \* sources to visit: <<[type, count], ...>>
    src,                          \* index of the source being collected
    collected_urls_with_source,   \* the multi-source frontier
    seen_post_ids,                \* seen-ID set shared by all sources
    src_collected,                \* collected_urls of _collect_from_single_source
    no_new_data_count

VARIABLES
    \* ---- PostCrawler (store-backed fetch loop) ----
    fpc,                   \* "off" | "idle" | "loop" | "done"
    upstream_subreddit,    \* post ID -> "subreddit" field of the upstream record
    start_index,           \* self.start_index (0-based, inclusive)
    end_index,             \* self.end_index (0-based, inclusive)
    pending_indexes,       \* the list load_crawl_progress returned
    loop_i,                \* i of `for i, index in enumerate(pending_indexes)`
    current_index,
    consecutive_failures,
    all_posts_data,        \* self.all_posts_data, the pending-write buffer
    total_crawled_count,
    completed_normally,
    posts,                 \* the posts table: a set of rows, post_id is the key
    progress_file,         \* the crawl progress document
    fetch_runs,            \* crawl_posts invocations so far (also: the clock)
    attempts,              \* finished fetch attempts of this run: <<[index, ok], ...>>
    posts_at_start,        \* the posts table when this run started
    prev_run,              \* the previous run: its completed_normally flag and
                           \* the number of its fetches that failed
    fetch_faults_left,     \* fetches that can still fail (Unlimited: any number)
    urls_file,             \* what self.urls_file holds (the frontier file)
    range_args             \* the start_index / end_index the crawler was built with

VARIABLES
    \* ---- _atomic_write_json ----
    wpc,                   \* "off" | "idle" | "open" | "flushed" | "synced" |
                           \* "closed" | "raised" | "crashed"
    fs,                    \* the file system: path -> content (or NoFile)
    w_data,                \* the data argument of the call
    w_old,                 \* content of the target when the call started
    f_buffer,              \* chunks written to f, not yet handed to the OS
    w_pos                  \* chunks json.dump has produced so far

VARIABLES
    \* ---- comment tree builders ----
    tpc,                   \* "off" | "flat" | "nested" | "built"
    flat_input,            \* the "data" list of the comment search response
    nested_input,          \* the children list of the comment listing
    tree_variant,          \* the crawler that builds: "pullpush", "reddit" or "file"
    flat_comments,         \* the parsed records handed to _build_comment_tree
    comments,              \* the returned forest (post_data["comments"])
    num_comments_filtered

VARIABLES
    \* ---- PostCrawler.save_data, the output JSON file (file-backed variant) ----
    dpc,                   \* "off" | "idle" | "open" | "crashed"
    output_file,           \* content of self.output_file (or NoFile)
    d_old,                 \* content of the output file when the flush started
    d_batch,               \* self.all_posts_data of the flush
    d_all,                 \* all_data = existing_data + self.all_posts_data
    d_buffer,              \* chunks written to f, not yet handed to the OS
    d_pos,                 \* chunks json.dump has produced so far
    d_stored               \* the list the last completed flush left in the file

VARIABLES
    \* ---- _save_to_sqlite, both variants, on a posts table of its own ----
    spc,                   \* "off" | "idle" | "wrote" | "retried"
    s_mode,                \* "ignore" (stage2_crawl_posts.py) | "replace"
    s_table,               \* the posts table
    s_prev,                \* the posts table before the last call
    s_batch,               \* posts_data of the last call
    s_clock                \* calls so far (also: datetime.now())

VARIABLES
    \* ---- two PostCrawler instances over disjoint ranges, one posts table ----
    ppc,                   \* "off" | "on"
    inst,                  \* instance -> its range, loop position, buffer, counters
    pair_posts,            \* the shared posts table
    pair_files,            \* progress file path -> content
    pair_clock,            \* flushes so far (also: datetime.now())
    pair_prev              \* the shared table before the last flush, and who flushed

VARIABLES
    \* ---- PostCrawler of src/stage2_crawl_posts.py (index-cursor fetch loop) ----
    xpc,                   \* "off" | "idle" | "init" | "loop" | "done"
    x_total,               \* total_posts = len(url_list)
    x_index,               \* current_index (1-based)
    x_failures,            \* consecutive_failures
    x_buffer,              \* self.all_posts_data: the numbers of the fetched items
    x_crawled,             \* self.total_crawled_count
    x_progress,            \* the crawl progress file
    x_completed,           \* completed_normally
    x_exit,                \* how the run left the try block (history)
    x_removed,             \* the run removed the progress file (history)
    x_runs,                \* crawl_posts invocations so far
    x_attempted,           \* item numbers whose fetch was attempted, in any run
    x_output,              \* documents of self.output_file, by item number
    x_fetched,             \* item numbers some run fetched successfully
    x_resumed              \* the index the last run loaded from the progress file

VARIABLES
    \* ---- RedditCrawler.crawl_posts (crawler.py, v1/crawler.py, v2/crawler.py) ----
    rpc,                   \* "off" | "idle" | "loop" | "done"
    r_variant,             \* "crawler" | "v1" | "v2": the source file that runs
    r_max_posts,           \* self.max_posts
    r_avail,               \* entries upstream can yield to collect_post_urls
    r_state,               \* self.state_file
    r_output,              \* documents of self.output_file, by item number
    r_buffer,              \* self.all_posts_data of the running instance
    r_index,               \* current_index / current_post_index
    r_total,               \* total_posts = len(url_list)
    r_failures,            \* consecutive_failures
    r_runs,                \* crawl_posts invocations so far
    r_exit,                \* how the last run left its try block
    r_fetched,             \* items some run fetched successfully
    r_started,             \* what the last run found and chose when it started
    r_faults               \* failed fetches so far

VARIABLES
    \* ---- check_coverage (utils/merge_results.py) ----
    vpc,                   \* "off" | "listed" | "checked"
    v_files,               \* the range files, in the order of os.listdir
    v_total,               \* --total
    v_coverage             \* what check_coverage returned

collectorVars == <<variant, cpc, max_posts, collected_urls, scanned_post_ids, before,
                   consecutive_errors, consecutive_zero_new, last_save_count,
                   state_file, url_list, exit_reason, runs, requested, ckpt_mem,
                   file_at_start, subreddit_url, page_log>>

multiVars == <<mpc, mc_variant, sampling_ratios, mc_max_posts, sampling_counts, sampling_configs, src,
               collected_urls_with_source, seen_post_ids, src_collected, no_new_data_count>>

fetchVars == <<fpc, upstream_subreddit, start_index, end_index, pending_indexes, loop_i,
               current_index, consecutive_failures, all_posts_data, total_crawled_count,
               completed_normally, posts, progress_file, fetch_runs, attempts,
               posts_at_start, prev_run, fetch_faults_left, urls_file, range_args>>

atomicVars == <<wpc, fs, w_data, w_old, f_buffer, w_pos>>

treeVars == <<tpc, tree_variant, flat_input, nested_input, flat_comments, comments,
              num_comments_filtered>>

docVars == <<dpc, output_file, d_old, d_batch, d_all, d_buffer, d_pos, d_stored>>

storeVars == <<spc, s_mode, s_table, s_prev, s_batch, s_clock>>

pairVars == <<ppc, inst, pair_posts, pair_files, pair_clock, pair_prev>>

cursorVars == <<xpc, x_total, x_index, x_failures, x_buffer, x_crawled, x_progress,
                x_completed, x_exit, x_removed, x_runs, x_attempted, x_output, x_fetched,
                x_resumed>>

crawlVars == <<rpc, r_variant, r_max_posts, r_avail, r_state, r_output, r_buffer, r_index,
               r_total, r_failures, r_runs, r_exit, r_fetched, r_started, r_faults>>

coverVars == <<vpc, v_files, v_total, v_coverage>>

sinkVars == <<docVars, storeVars, pairVars, cursorVars, crawlVars, coverVars>>

vars == <<collectorVars, multiVars, fetchVars, atomicVars, treeVars, sinkVars>>

NotCollector == <<multiVars, fetchVars, atomicVars, treeVars, sinkVars>>
NotMulti == <<collectorVars, fetchVars, atomicVars, treeVars, sinkVars>>
NotFetch == <<collectorVars, multiVars, atomicVars, treeVars, sinkVars>>
NotAtomic == <<collectorVars, multiVars, fetchVars, treeVars, sinkVars>>
NotTree == <<collectorVars, multiVars, fetchVars, atomicVars, sinkVars>>
NotSink == <<collectorVars, multiVars, fetchVars, atomicVars, treeVars>>
NotDoc == <<NotSink, storeVars, pairVars, cursorVars, crawlVars, coverVars>>
NotStore == <<NotSink, docVars, pairVars, cursorVars, crawlVars, coverVars>>
NotPair == <<NotSink, docVars, storeVars, cursorVars, crawlVars, coverVars>>
NotCursor == <<NotSink, docVars, storeVars, pairVars, crawlVars, coverVars>>
NotCrawl == <<NotSink, docVars, storeVars, pairVars, cursorVars, coverVars>>
NotCover == <<NotSink, docVars, storeVars, pairVars, cursorVars, crawlVars>>

\* The history of the listing requests of a run:
\*   fail_streak  failed requests since the last request handled without error
\*   zero_pages   pages processed in a row that added no entry to the frontier
\*   dup_pages    pages processed in a row that added no entry and met no
\*                deleted item for the first time
NoRequests == [fail_streak |-> 0, zero_pages |-> 0, dup_pages |-> 0]

FailedRequest(log) == [log EXCEPT !.fail_streak = @ + 1]

\* a page whose records were all processed by _process_api_response
ProcessedPage(log, acc) ==
    [log EXCEPT !.zero_pages = IF acc.new = 0 THEN @ + 1 ELSE 0,
                !.dup_pages = IF acc.new = 0 /\ acc.del = 0 THEN @ + 1 ELSE 0]

HandledRequest(log) == [log EXCEPT !.fail_streak = 0]

FileAbsent ==
    [exists |-> FALSE, collected_urls |-> <<>>, before_timestamp |-> InitialBefore,
     ids |-> {}, is_complete |-> FALSE, max_posts |-> 0]

NoCheckpoint ==
    [written |-> FALSE, collected_urls |-> <<>>, ids |-> {}, before |-> InitialBefore]

(***************************************************************************)
(* Persistence of the frontier.                                            *)
(*   v3   save_progress: collected_urls, before_timestamp and the whole    *)
(*        scanned_post_ids set.                                            *)
(*   root save_url_collection_progress: the IDs are re-extracted from the  *)
(*        collected URLs (collected_post_ids), the set itself is not       *)
(*        written.                                                         *)
(***************************************************************************)
save_progress(urls, bef, ids, mp) ==
    [exists |-> TRUE, collected_urls |-> urls, before_timestamp |-> bef,
     ids |-> ids, is_complete |-> (Len(urls) >= mp), max_posts |-> mp]

save_url_collection_progress(urls, bef, target_count) ==
    [exists |-> TRUE, collected_urls |-> urls, before_timestamp |-> bef,
     ids |-> {_extract_post_id(urls[i].url) : i \in 1..Len(urls)} \ {NoId},
     is_complete |-> (Len(urls) >= target_count), max_posts |-> target_count]

SavedState(var, urls, bef, ids, mp) ==
    IF var = "v3" THEN save_progress(urls, bef, ids, mp)
    ELSE save_url_collection_progress(urls, bef, mp)

\* load_progress that never finds the state file
load_progress_IgnoreFile(var, file, mp) ==
    [collected_urls |-> <<>>, before |-> InitialBefore, ids |-> {},
     is_complete |-> FALSE, has_progress |-> FALSE]

\* load_progress: v3 trusts the stored is_complete flag, root recomputes it
\* from the stored list and the max_posts of the running instance.
load_progress(var, file, mp) ==
    IF ~file.exists
    THEN [collected_urls |-> <<>>, before |-> InitialBefore, ids |-> {},
          is_complete |-> FALSE, has_progress |-> FALSE]
    ELSE [collected_urls |-> file.collected_urls,
          before |-> file.before_timestamp,
          ids |-> file.ids,
          is_complete |-> IF var = "v3" THEN file.is_complete
                          ELSE Len(file.collected_urls) >= mp,
          has_progress |-> TRUE]

\* _initialize_collection_state, v3 (lines 123-137) preceded by the
\* "or" defaults of collect_post_urls (lines 209-211), and root (147-171).
_initialize_collection_state_StoredIdsOnly(var, loaded) ==
    [urls |-> loaded.collected_urls,
     ids |-> IF var = "v3" THEN loaded.ids ELSE {},
     before |-> loaded.before]

_initialize_collection_state(var, loaded) ==
    LET extracted == {_extract_post_id(loaded.collected_urls[i].url) :
                          i \in 1..Len(loaded.collected_urls)} \ {NoId}
    IN IF var = "v3"
       THEN [urls |-> loaded.collected_urls,
             ids |-> IF loaded.ids = {} /\ Len(loaded.collected_urls) > 0
                     THEN extracted ELSE loaded.ids,
             before |-> IF loaded.before = NoTs THEN InitialBefore ELSE loaded.before]
       ELSE [urls |-> loaded.collected_urls,
             ids |-> IF loaded.has_progress THEN loaded.ids ELSE extracted,
             before |-> IF loaded.has_progress THEN loaded.before ELSE InitialBefore]

\* A checkpoint write; ckpt_mem remembers the in-memory state written.
WriteCheckpoint(urls, bef, ids, mp) ==
    /\ state_file' = SavedState(variant, urls, bef, ids, mp)
    /\ ckpt_mem' = [written |-> TRUE, collected_urls |-> urls, ids |-> ids, before |-> bef]

\* leaving the loop without the final save
ExitLoop_NoFinalSave(reason, urls, bef, ids, lsc, mp) ==
    /\ cpc' = "returned"
    /\ exit_reason' = reason
    /\ url_list' = Prefix(urls, mp)
    /\ UNCHANGED <<state_file, ckpt_mem>>

\* Leaving the while loop of collect_post_urls: the final save (lines 312-316)
\* and the truncated return value (line 318).
ExitLoop(reason, urls, bef, ids, lsc, mp) ==
    /\ cpc' = "returned"
    /\ exit_reason' = reason
    /\ url_list' = Prefix(urls, mp)
    /\ IF Len(urls) # lsc \/ Len(urls) >= mp
       THEN WriteCheckpoint(urls, bef, ids, mp)
       ELSE UNCHANGED <<state_file, ckpt_mem>>

(***************************************************************************)
(* URLCollector.run: load the checkpoint, return at once when it is        *)
(* complete, otherwise enter collect_post_urls.                            *)
(***************************************************************************)
StartRun(mp, target_url) ==
    /\ cpc \in {"idle", "returned"}
    /\ runs < MaxRuns
    /\ runs' = runs + 1
    /\ max_posts' = mp
    /\ subreddit_url' = target_url
    /\ page_log' = NoRequests
    /\ requested' = FALSE
    /\ file_at_start' = state_file
    /\ consecutive_errors' = 0
    /\ consecutive_zero_new' = 0
    /\ UNCHANGED variant
    /\ UNCHANGED NotCollector
    /\ LET loaded == load_progress(variant, state_file, mp)
           st == _initialize_collection_state(variant, loaded)
       IN IF loaded.is_complete \/ HasCommentsMarker(target_url)
          THEN /\ cpc' = "returned"
               /\ exit_reason' = IF loaded.is_complete THEN "complete" ELSE "single"
               /\ url_list' = IF loaded.is_complete THEN loaded.collected_urls
                               ELSE SingleItemList(target_url)
               /\ collected_urls' = loaded.collected_urls
               /\ scanned_post_ids' = IF variant = "v3" THEN loaded.ids ELSE {}
               /\ before' = IF variant = "v3" THEN loaded.before ELSE InitialBefore
               /\ last_save_count' = 0
               /\ UNCHANGED <<state_file, ckpt_mem>>
          ELSE /\ collected_urls' = st.urls
               /\ scanned_post_ids' = st.ids
               /\ before' = st.before
               /\ last_save_count' = Len(st.urls)
               /\ IF Len(st.urls) < mp
                  THEN /\ cpc' = "loop"
                       /\ exit_reason' = "none"
                       /\ UNCHANGED <<state_file, ckpt_mem, url_list>>
                  ELSE ExitLoop("target", st.urls, st.before, st.ids, Len(st.urls), mp)


(***************************************************************************)
(* One iteration of the while loop of collect_post_urls, from the request  *)
(* to the sleep that ends the iteration (or to the break).                 *)
(***************************************************************************)
CollectorLoopFrame ==
    UNCHANGED <<variant, max_posts, runs, file_at_start, subreddit_url>> /\ UNCHANGED NotCollector

\* response.status_code != 200 (lines 240-247)
RequestHttpError ==
    /\ cpc = "loop" /\ Len(collected_urls) < max_posts
    /\ requested' = TRUE
    /\ page_log' = FailedRequest(page_log)
    /\ consecutive_errors' = consecutive_errors + 1
    /\ IF consecutive_errors + 1 >= HttpErrorLimit
       THEN ExitLoop("errors", collected_urls, before, scanned_post_ids,
                     last_save_count, max_posts)
       ELSE UNCHANGED <<cpc, exit_reason, url_list, state_file, ckpt_mem>>
    /\ UNCHANGED <<collected_urls, scanned_post_ids, before, consecutive_zero_new,
                   last_save_count>>
    /\ CollectorLoopFrame

\* Timeout / RequestException / JSONDecodeError (lines 287-296)
RequestException ==
    /\ cpc = "loop" /\ Len(collected_urls) < max_posts
    /\ requested' = TRUE
    /\ page_log' = FailedRequest(page_log)
    /\ consecutive_errors' = consecutive_errors + 1
    /\ IF consecutive_errors + 1 >= RequestErrorLimit
       THEN ExitLoop("errors", collected_urls, before, scanned_post_ids,
                     last_save_count, max_posts)
       ELSE UNCHANGED <<cpc, exit_reason, url_list, state_file, ckpt_mem>>
    /\ UNCHANGED <<collected_urls, scanned_post_ids, before, consecutive_zero_new,
                   last_save_count>>
    /\ CollectorLoopFrame

\* status 200 with an empty "data" list (lines 252-254)
RequestEmpty ==
    /\ cpc = "loop" /\ Len(collected_urls) < max_posts
    /\ requested' = TRUE
    /\ page_log' = HandledRequest(page_log)
    /\ ExitLoop("exhausted", collected_urls, before, scanned_post_ids,
                last_save_count, max_posts)
    /\ UNCHANGED <<collected_urls, scanned_post_ids, before, consecutive_errors,
                   consecutive_zero_new, last_save_count>>
    /\ CollectorLoopFrame

\* "size": min(page size, max_posts - len(collected_urls) + 1)
PageSizeParam == IF max_posts - Len(collected_urls) + 1 < MaxPageLen
                 THEN max_posts - Len(collected_urls) + 1 ELSE MaxPageLen

\* the zero-new test of the root file, in both files
ZeroNew_NewOnly(var, acc) == acc.new = 0

\* The zero-new test: v3 line 261 (no new and no deleted), root line 291 (no new).
ZeroNew(var, acc) == IF var = "v3" THEN acc.new = 0 /\ acc.del = 0 ELSE acc.new = 0

\* The periodic save test (lines 277-278).
PeriodicSaveDue(n, lsc) == n - lsc >= SaveEveryNew \/ n % SaveEveryTotal = 0

\* status 200 with a non-empty page, handled without exception (lines 256-285)
RequestPage(page) ==
    /\ cpc = "loop" /\ Len(collected_urls) < max_posts
    /\ Len(page) <= PageSizeParam
    /\ requested' = TRUE
    /\ LET acc == _process_api_response(page, collected_urls, scanned_post_ids, max_posts)
           zero == ZeroNew(variant, acc)
           bef == page[Len(page)].created_utc
       IN /\ collected_urls' = acc.urls
          /\ scanned_post_ids' = acc.ids
          /\ page_log' = ProcessedPage(HandledRequest(page_log), acc)
          /\ consecutive_zero_new' = IF zero THEN consecutive_zero_new + 1 ELSE 0
          /\ IF zero /\ consecutive_zero_new + 1 >= ZeroNewLimit
             THEN /\ ExitLoop("stalled", acc.urls, before, acc.ids, last_save_count, max_posts)
                  /\ UNCHANGED <<before, consecutive_errors, last_save_count>>
             ELSE /\ before' = bef
                  /\ consecutive_errors' = 0
                  /\ UNCHANGED <<cpc, exit_reason, url_list>>
                  /\ IF PeriodicSaveDue(Len(acc.urls), last_save_count)
                     THEN /\ WriteCheckpoint(acc.urls, bef, acc.ids, max_posts)
                          /\ last_save_count' = Len(acc.urls)
                     ELSE UNCHANGED <<state_file, ckpt_mem, last_save_count>>
    /\ CollectorLoopFrame

\* status 200, but handling the page raises an unexpected exception
\* (lines 300-305).  Either a record that is not an object stops
\* _process_api_response after the records of "done" (atCursor = FALSE), or
\* the last record has no "created_utc" key and line 271 raises after the
\* whole page and the zero-new bookkeeping (atCursor = TRUE); the keyless
\* record itself is skipped by line 172.
RequestPageRaises(done, atCursor) ==
    /\ cpc = "loop" /\ Len(collected_urls) < max_posts
    /\ Len(done) + 1 <= PageSizeParam
    /\ requested' = TRUE
    /\ LET acc == _process_api_response(done, collected_urls, scanned_post_ids, max_posts)
           zero == ZeroNew(variant, acc)
       IN /\ collected_urls' = acc.urls
          /\ scanned_post_ids' = acc.ids
          /\ ~(atCursor /\ zero /\ consecutive_zero_new + 1 >= ZeroNewLimit)
          /\ page_log' = IF atCursor THEN ProcessedPage(FailedRequest(page_log), acc)
                         ELSE FailedRequest(page_log)
          /\ consecutive_zero_new' = IF atCursor
                                     THEN (IF zero THEN consecutive_zero_new + 1 ELSE 0)
                                     ELSE consecutive_zero_new
          /\ consecutive_errors' = consecutive_errors + 1
          /\ IF consecutive_errors + 1 >= HttpErrorLimit
             THEN ExitLoop("errors", acc.urls, before, acc.ids, last_save_count, max_posts)
             ELSE UNCHANGED <<cpc, exit_reason, url_list, state_file, ckpt_mem>>
    /\ UNCHANGED <<before, last_save_count>>
    /\ CollectorLoopFrame

\* The while condition fails after the sleep: final save and return.
ExitOnTarget ==
    /\ cpc = "loop" /\ Len(collected_urls) >= max_posts
    /\ ExitLoop("target", collected_urls, before, scanned_post_ids,
                last_save_count, max_posts)
    /\ UNCHANGED <<collected_urls, scanned_post_ids, before, consecutive_errors,
                   consecutive_zero_new, last_save_count, requested, page_log>>
    /\ CollectorLoopFrame

\* KeyboardInterrupt at a request or a sleep (lines 297-299, 307-310);
\* run() then returns [] (lines 341-343).
Interrupt ==
    /\ cpc = "loop"
    /\ WriteCheckpoint(collected_urls, before, scanned_post_ids, max_posts)
    /\ cpc' = "returned"
    /\ exit_reason' = "interrupt"
    /\ url_list' = <<>>
    /\ UNCHANGED <<collected_urls, scanned_post_ids, before, consecutive_errors,
                   consecutive_zero_new, last_save_count, requested, page_log>>
    /\ CollectorLoopFrame

\* The process is killed at a request or a sleep: nothing is written.
Kill ==
    /\ cpc = "loop"
    /\ cpc' = "returned"
    /\ exit_reason' = "killed"
    /\ url_list' = <<>>
    /\ UNCHANGED <<collected_urls, scanned_post_ids, before, consecutive_errors,
                   consecutive_zero_new, last_save_count, requested, state_file, ckpt_mem,
                   page_log>>
    /\ CollectorLoopFrame

InitCollector ==
    /\ variant \in Variants
    /\ cpc = "idle"
    /\ max_posts = 1
    /\ collected_urls = <<>>
    /\ scanned_post_ids = {}
    /\ before = InitialBefore
    /\ consecutive_errors = 0
    /\ consecutive_zero_new = 0
    /\ last_save_count = 0
    /\ state_file = FileAbsent
    /\ url_list = <<>>
    /\ exit_reason = "none"
    /\ runs = 0
    /\ requested = FALSE
    /\ ckpt_mem = NoCheckpoint
    /\ file_at_start = FileAbsent
    /\ subreddit_url = ListingUrl
    /\ page_log = NoRequests

CollectorOff ==
    /\ variant = "v3"
    /\ cpc = "off"
    /\ max_posts = 1
    /\ collected_urls = <<>>
    /\ scanned_post_ids = {}
    /\ before = InitialBefore
    /\ consecutive_errors = 0
    /\ consecutive_zero_new = 0
    /\ last_save_count = 0
    /\ state_file = FileAbsent
    /\ url_list = <<>>
    /\ exit_reason = "none"
    /\ runs = 0
    /\ requested = FALSE
    /\ ckpt_mem = NoCheckpoint
    /\ file_at_start = FileAbsent
    /\ subreddit_url = ListingUrl
    /\ page_log = NoRequests

NextCollector ==
    \/ \E mp \in 1..MaxPosts : \E target_url \in TargetUrls : StartRun(mp, target_url)
    \/ RequestHttpError
    \/ RequestException
    \/ RequestEmpty
    \/ \E page \in Pages : RequestPage(page)
    \/ \E done \in SeqsUpTo(ListingPosts, MaxPageLen - 1) : \E atCursor \in BOOLEAN :
          RequestPageRaises(done, atCursor)
    \/ ExitOnTarget
    \/ Interrupt
    \/ Kill

(***************************************************************************)
(* RedditCrawler (src/crawler.py): sampling ratios, quota partition and    *)
(* multi-source collection.                                                *)
(* A ratio is the fraction num/den; a configured ratio has den = 1000      *)
(* (three decimals), a renormalised one has the configured total as den.   *)
(***************************************************************************)
MaxQuotaPosts == 5     \* max_posts values of the quota computation: 1..MaxQuotaPosts

RatioTolerance == 10   \* abs(total_ratio - 1.0) > 0.01, in thousandths
RatioUnit == 1000

\* sorted(self.sampling_ratios.keys()) for the source types of the model
SourceOrder == <<"best", "new", "top_year">>
SourceTypes == Range(SourceOrder)

sorted_types(ratios) == SelectSeq(SourceOrder, LAMBDA t : t \in DOMAIN ratios)

RECURSIVE SumOver(_, _)
SumOver(f, S) ==
    IF S = {} THEN 0
    ELSE LET x == CHOOSE y \in S : TRUE IN f[x] + SumOver(f, S \ {x})

Abs(x) == IF x < 0 THEN -x ELSE x

\* __init__ lines 69-75: renormalise when the total is out of tolerance.
NormalizeRatios(cfg) ==
    LET total == SumOver(cfg, DOMAIN cfg)
    IN IF Abs(total - RatioUnit) > RatioTolerance
       THEN [t \in DOMAIN cfg |-> [num |-> cfg[t], den |-> total]]
       ELSE [t \in DOMAIN cfg |-> [num |-> cfg[t], den |-> RatioUnit]]

\* int(self.max_posts * ratio) in IEEE double arithmetic.  For a three-decimal
\* ratio and max_posts <= 120 the result is the exact floor except for the
\* pairs below, where the double product falls just short of an integer
\* (e.g. 100 * 0.29 = 28.999999999999996); it is the exact floor for the
\* over-unit ratios at max_posts = 200 as well.
FloatProductShort == {<<50, 580>>, <<90, 700>>, <<100, 290>>, <<100, 570>>, <<100, 580>>}

IntOfProduct(mp, ratio) ==
    IF ratio.den = RatioUnit /\ <<mp, ratio.num>> \in FloatProductShort
    THEN (mp * ratio.num) \div ratio.den - 1
    ELSE (mp * ratio.num) \div ratio.den

\* collect_post_urls lines 386-398: every type but the last (in sorted order)
\* takes int(max_posts * ratio); the last takes what remains.
RECURSIVE CountsUpTo_NoRemainder(_, _, _, _)
CountsUpTo_NoRemainder(st, k, ratios, mp) ==
    IF k = 0 THEN [counts |-> <<>>, remaining |-> mp]
    ELSE LET prev == CountsUpTo_NoRemainder(st, k - 1, ratios, mp)
             count == IntOfProduct(mp, ratios[st[k]])
         IN [counts |-> Append(prev.counts, count), remaining |-> prev.remaining - count]

RECURSIVE CountsUpTo(_, _, _, _)
CountsUpTo(st, k, ratios, mp) ==
    \* <<counts of st[1..k], remaining_count after them>>
    IF k = 0 THEN [counts |-> <<>>, remaining |-> mp]
    ELSE LET prev == CountsUpTo(st, k - 1, ratios, mp)
             count == IF k = Len(st) THEN prev.remaining
                      ELSE IntOfProduct(mp, ratios[st[k]])
         IN [counts |-> Append(prev.counts, count),
             remaining |-> IF k = Len(st) THEN prev.remaining ELSE prev.remaining - count]

SamplingCounts(ratios, mp) ==
    LET st == sorted_types(ratios)
        r == CountsUpTo(st, Len(st), ratios, mp)
    IN [t \in DOMAIN ratios |-> r.counts[CHOOSE i \in 1..Len(st) : st[i] = t]]

\* lines 425-432: the sources actually visited, in sampling_counts order
SamplingConfigs(counts) ==
    LET st == sorted_types(counts)
        all == [i \in 1..Len(st) |-> [type |-> st[i], count |-> counts[st[i]]]]
    IN SelectSeq(all, LAMBDA c : c.count > 0)

(***************************************************************************)
(* Links seen on a listing page.                                           *)
(***************************************************************************)
Hrefs ==
    {[rel |-> TRUE, user |-> FALSE, path |-> Permalink(i, 1)] : i \in Ids}
    \cup {[rel |-> FALSE, user |-> FALSE, path |-> Permalink(1, 2)]}   \* absolute link
    \cup {[rel |-> TRUE, user |-> TRUE, path |-> Permalink(1, 1)]}     \* under /user/
    \cup {[rel |-> TRUE, user |-> FALSE, path |-> Permalink(NoId, 1)]} \* no ID segment

LinkLists == SeqsUpTo(Hrefs, MaxPageLen)

\* lines 493-494: a relative href gets the site prefix
AbsoluteUrl(href) ==
    [host |-> IF href.rel THEN "www.reddit.com" ELSE "old.reddit.com", path |-> href.path]

\* lines 488-504, one link; acc is [urls, seen, found, full]
ScanOne(acc, href, source_type, target_count) ==
    IF acc.full THEN acc                                \* break at line 504
    ELSE IF href.user THEN acc
    ELSE LET url == AbsoluteUrl(href)
             post_id == _extract_post_id(url)
         IN IF post_id # NoId /\ post_id \notin acc.seen
            THEN [urls |-> Append(acc.urls, [url |-> url, source |-> source_type]),
                  seen |-> acc.seen \cup {post_id},
                  found |-> acc.found + 1,
                  full |-> Len(acc.urls) + 1 >= target_count]
            ELSE acc

RECURSIVE ScanFrom(_, _, _, _, _)
ScanFrom(acc, links, k, source_type, target_count) ==
    IF k > Len(links) THEN acc
    ELSE ScanFrom(ScanOne(acc, links[k], source_type, target_count), links, k + 1,
                  source_type, target_count)

ScanLinkList(links, urls, seen, source_type, target_count) ==
    ScanFrom([urls |-> urls, seen |-> seen, found |-> 0, full |-> FALSE],
             links, 1, source_type, target_count)

\* collect_post_urls lines 386-432: the sampling plan
PlanQuotas ==
    /\ mpc = "init"
    /\ LET counts == SamplingCounts(sampling_ratios, mc_max_posts)
           configs == SamplingConfigs(counts)
       IN /\ sampling_counts' = counts
          /\ sampling_configs' = configs
          /\ mpc' = IF Len(configs) = 0 THEN "done" ELSE "scroll"
    /\ src' = 1
    /\ UNCHANGED <<mc_variant, sampling_ratios, mc_max_posts, collected_urls_with_source,
                   seen_post_ids, src_collected, no_new_data_count>>
    /\ UNCHANGED NotMulti

\* _collect_from_single_source returned `result`: lines 442-445 and the next
\* source of the for loop.
FinishSource(result) ==
    /\ collected_urls_with_source' = collected_urls_with_source \o result
    /\ src' = src + 1
    /\ mpc' = IF src + 1 > Len(sampling_configs) THEN "done" ELSE "scroll"
    /\ src_collected' = <<>>
    /\ no_new_data_count' = 0

\* rounds without a new link after which a source is given up: 3 in
\* src/crawler.py (line 479), 5 in src/v1/crawler.py (line 444)
StallLimit(crawler) == IF crawler = "v1" THEN AttemptLimit ELSE ZeroNewLimit

\* one iteration of the while loop (lines 479-529) that raises nothing
ScanLinks(links) ==
    /\ mpc = "scroll"
    /\ LET cfg == sampling_configs[src]
           acc == ScanLinkList(links, src_collected, seen_post_ids, cfg.type, cfg.count)
           nnd == IF acc.found = 0 THEN no_new_data_count + 1 ELSE 0
       IN /\ seen_post_ids' = acc.seen
          /\ IF Len(acc.urls) >= cfg.count \/ nnd >= StallLimit(mc_variant)
             THEN FinishSource(Prefix(acc.urls, cfg.count))
             ELSE /\ src_collected' = acc.urls
                  /\ no_new_data_count' = nnd
                  /\ UNCHANGED <<collected_urls_with_source, src, mpc>>
    /\ UNCHANGED <<mc_variant, sampling_ratios, mc_max_posts, sampling_counts, sampling_configs>>
    /\ UNCHANGED NotMulti

\* query_selector_all or the scroll raises (lines 531-534)
ScanRaises ==
    /\ mpc = "scroll"
    /\ IF no_new_data_count + 1 >= StallLimit(mc_variant)
       THEN FinishSource(Prefix(src_collected, sampling_configs[src].count))
       ELSE /\ no_new_data_count' = no_new_data_count + 1
            /\ UNCHANGED <<collected_urls_with_source, src, mpc, src_collected>>
    /\ UNCHANGED <<mc_variant, sampling_ratios, mc_max_posts, sampling_counts, sampling_configs,
                   seen_post_ids>>
    /\ UNCHANGED NotMulti

\* page.goto or simulate_human_behavior raises (lines 538-540): the source
\* returns what it has
SourceAborts ==
    /\ mpc = "scroll"
    /\ mc_variant = "crawler"
    /\ FinishSource(src_collected)
    /\ UNCHANGED <<mc_variant, sampling_ratios, mc_max_posts, sampling_counts, sampling_configs,
                   seen_post_ids>>
    /\ UNCHANGED NotMulti

\* src/v1/crawler.py: page.goto or the CAPTCHA check raises (lines 429-433),
\* or the wait in the except branch of the loop raises (lines 490-493).  The
\* exception leaves _collect_from_source; collect_post_urls logs it (lines
\* 421-422) and goes on with the next source.
SourceRaises ==
    /\ mpc = "scroll"
    /\ mc_variant = "v1"
    /\ FinishSource(<<>>)
    /\ UNCHANGED <<mc_variant, sampling_ratios, mc_max_posts, sampling_counts,
                   sampling_configs, seen_post_ids>>
    /\ UNCHANGED NotMulti

\* Ratio configurations (thousandths per source type).
RatioGrid == {0, 100, 250, 290, 300, 330, 335, 340, 420, 430, 500, 570, 580, 650, 700,
              710, 1000}

RatioConfigs ==
    UNION {[K -> RatioGrid] : K \in (SUBSET SourceTypes) \ {{}}}

WithinTolerance(cfg) == Abs(SumOver(cfg, DOMAIN cfg) - RatioUnit) < RatioTolerance

DefaultRatios == [t \in SourceTypes |->
                    IF t = "new" THEN 650 ELSE IF t = "top_year" THEN 250 ELSE 100]

QuotaInputs ==
    {cfg \in RatioConfigs : WithinTolerance(cfg) \/ SumOver(cfg, DOMAIN cfg) = 1100}

(***************************************************************************)
(* PostCrawler (src/stage2_crawl_posts_pullpush.py and                     *)
(* src/stage2_crawl_posts_reddit.py): the store-backed fetch loop.         *)
(* The frontier file is the complete URL list of stage 1; the posts table  *)
(* is a set of rows with post_id as primary key.                           *)
(***************************************************************************)
MaxFrontier == 8      \* entries of the short frontier file: indexes 0..MaxFrontier-1
MaxFetchRuns == 2     \* crawl_posts invocations in one behaviour
LongFrontier == 12    \* entries of the long frontier file (more than one batch)
MaxFetchFaults == 1   \* failed fetches in a behaviour over the long frontier

FailureLimit == 5     \* consecutive_failures >= 5: stop
BatchSize == 10       \* len(all_posts_data) % 10 == 0: save_data

\* self.subreddit_name (from the subreddit URL) and another name an upstream
\* record can carry in its "subreddit" field
SubredditName == "dogs"
OtherSubreddit == "Dogs"

FrontierIndexes == 0..(LongFrontier - 1)

\* url_list[index]: entry `index` of the frontier is the URL of post index+1
FrontierUrl(index) == PostUrl(Permalink(index + 1, 1))

\* what the upstream says about the subreddit of each post
UpstreamViews ==
    {[p \in 1..LongFrontier |-> SubredditName],
     [p \in 1..LongFrontier |-> IF p = 1 THEN OtherSubreddit ELSE SubredditName]}

\* start_index / end_index not given (None): a value that no index argument
\* of the behaviours explored takes, tested for before any comparison
None == 0 - 100

\* what the frontier file can be: absent, not JSON, the state of an
\* unfinished collection, a finished collection of nothing, or the complete
\* list of LongFrontier entries
UrlsFileViews == {"missing", "unreadable", "incomplete", "empty", "complete"}

\* len(url_list) of the complete frontier file
TotalCount == LongFrontier

\* the ranges asked for over a short part of the frontier
FetchRanges == {<<0, MaxFrontier - 1>>, <<1, MaxFrontier - 3>>}

\* ranges that reach over the ends of the frontier, and ranges that are
\* empty after the clamping
EdgeRanges ==
    {<<0 - 1, 0>>, <<TotalCount - 2, TotalCount + 1>>, <<None, 1>>,
     <<MaxFrontier - 3, 1>>, <<TotalCount, None>>, <<None, 0 - 1>>}

\* no bound on the number of failed fetches
Unlimited == 0 - 1

\* The behaviours explored: over a short range every fetch may fail, over
\* the whole frontier few fetches fail; a frontier file that is not a
\* complete list is met with the first of the short ranges.
FetchScenarios ==
    {[urls_file |-> "complete", range |-> r, fetch_faults |-> Unlimited] :
        r \in FetchRanges \cup EdgeRanges}
    \cup {[urls_file |-> "complete", range |-> <<None, None>>,
            fetch_faults |-> MaxFetchFaults]}
    \cup {[urls_file |-> f, range |-> <<0, MaxFrontier - 1>>, fetch_faults |-> Unlimited] :
            f \in UrlsFileViews \ {"complete"}}

\* load_url_list without the test of line 212
load_url_list_NoRangeCheck(file, s, e) ==
    IF file # "complete"
    THEN [ok |-> FALSE, start_index |-> s, end_index |-> e]
    ELSE LET s1 == IF s = None THEN 0 ELSE s
             e1 == IF e = None THEN TotalCount - 1 ELSE e
             s2 == IF s1 < 0 THEN 0 ELSE s1
             e2 == IF e1 >= TotalCount THEN TotalCount - 1 ELSE e1
         IN [ok |-> TRUE, start_index |-> s2, end_index |-> e2]

\* load_url_list (lines 179-224): whether a url list is returned, and
\* self.start_index / self.end_index afterwards
load_url_list(file, s, e) ==
    IF file # "complete"
    THEN [ok |-> FALSE, start_index |-> s, end_index |-> e]
    ELSE LET s1 == IF s = None THEN 0 ELSE s
             e1 == IF e = None THEN TotalCount - 1 ELSE e
             s2 == IF s1 < 0 THEN 0 ELSE s1
             e2 == IF e1 >= TotalCount THEN TotalCount - 1 ELSE e1
         IN [ok |-> s2 <= e2, start_index |-> s2, end_index |-> e2]

NoProgressFile == [exists |-> FALSE, current_index |-> 0, total_crawled |-> 0]

\* a progress file json.load cannot read
CorruptProgressFile == [exists |-> TRUE, current_index |-> 0 - 1, total_crawled |-> 0 - 1]

\* what a progress file can hold when a run starts: nothing (missing),
\* garbage, the record of a run that stored nothing (stale), or the record of a
\* run that stored the whole range (ahead)
ProgressViews(s, e) ==
    {NoProgressFile, CorruptProgressFile,
     [exists |-> TRUE, current_index |-> s, total_crawled |-> 0],
     [exists |-> TRUE, current_index |-> e, total_crawled |-> e - s + 1]}

NoRun == [completed_normally |-> FALSE, failed_fetches |-> 0]

\* sorted() with the order reversed
RECURSIVE SortedSeq_Descending(_)
SortedSeq_Descending(S) ==
    IF S = {} THEN <<>>
    ELSE LET m == CHOOSE x \in S : \A y \in S : x >= y
         IN <<m>> \o SortedSeq_Descending(S \ {m})

RECURSIVE SortedSeq(_)
SortedSeq(S) ==
    IF S = {} THEN <<>>
    ELSE LET m == CHOOSE x \in S : \A y \in S : x <= y
         IN <<m>> \o SortedSeq(S \ {m})

\* the query without the subreddit condition
_get_crawled_indexes_from_db_AnySubreddit(table, name, s, e) ==
    {r.index_in_list : r \in {q \in table : /\ q.index_in_list >= s
                                             /\ q.index_in_list <= e}}

\* SELECT index_in_list FROM posts WHERE subreddit = ? AND index_in_list
\* >= start AND index_in_list <= end
_get_crawled_indexes_from_db(table, name, s, e) ==
    {r.index_in_list : r \in {q \in table : /\ q.subreddit = name
                                             /\ q.index_in_list >= s
                                             /\ q.index_in_list <= e}}

\* a loader that resumes after the index recorded in the progress file
load_crawl_progress_FromProgressFile(table, name, s, e, progress) ==
    LET crawled_indexes == _get_crawled_indexes_from_db(table, name, s, e)
        first == IF progress.exists /\ progress.current_index >= s
                 THEN progress.current_index + 1 ELSE s
    IN [pending_indexes |-> SortedSeq(first..e),
        total_crawled |-> Cardinality(crawled_indexes)]

\* load_crawl_progress: pending indexes (ascending) and the crawled count;
\* the progress file is read for the log only (lines 278-291)
load_crawl_progress(table, name, s, e, progress) ==
    LET crawled_indexes == _get_crawled_indexes_from_db(table, name, s, e)
    IN [pending_indexes |-> SortedSeq((s..e) \ crawled_indexes),
        total_crawled |-> Cardinality(crawled_indexes)]

\* llm_analyze_result of a row that no analysis has been attached to (NULL)
NoResult == "NULL"

\* fetch_post_json, the fields of post_data the store keys on, and the
\* crawled fields (title, body, score, comments, ...) as `content`
PostData(index, upstream) ==
    LET post_id == _extract_post_id(FrontierUrl(index))
    IN [index |-> index, post_id |-> post_id, subreddit |-> upstream[post_id],
        content |-> post_id]

\* the new row of an INSERT OR REPLACE: the columns of the statement, the
\* others (llm_analyze_result) at their default
ReplacedRow(post, now) ==
    [index_in_list |-> post.index, post_id |-> post.post_id,
     subreddit |-> post.subreddit, content |-> post.content, crawled_at |-> now,
     llm_analyze_result |-> NoResult]

\* an INSERT that leaves the rows of the same post_id in the table
InsertOrReplace_InsertOnly(table, post, now) ==
    table \cup {ReplacedRow(post, now)}

\* INSERT OR REPLACE of one post (post_id is the primary key): the row of the
\* same post_id is deleted, the new row is inserted; crawled_at is the time
\* of the write
InsertOrReplace(table, post, now) ==
    {r \in table : r.post_id # post.post_id} \cup {ReplacedRow(post, now)}

RECURSIVE _save_to_sqlite(_, _, _)
_save_to_sqlite(table, posts_data, now) ==
    IF posts_data = <<>> THEN table
    ELSE _save_to_sqlite(InsertOrReplace(table, Head(posts_data), now), Tail(posts_data), now)

\* the row of an INSERT OR IGNORE in src/stage2_crawl_posts.py, whose table
\* has no index_in_list and no llm_analyze_result column
IgnoredRow(post, now) ==
    [index_in_list |-> None, post_id |-> post.post_id,
     subreddit |-> post.subreddit, content |-> post.content, crawled_at |-> now,
     llm_analyze_result |-> NoResult]

\* an INSERT into a table without the UNIQUE constraint on post_id
InsertOrIgnore_NotUnique(table, post, now) ==
    table \cup {IgnoredRow(post, now)}

\* INSERT OR IGNORE of one post (post_id is UNIQUE): nothing happens when the
\* table has a row of the same post_id
InsertOrIgnore(table, post, now) ==
    IF \E r \in table : r.post_id = post.post_id
    THEN table
    ELSE table \cup {IgnoredRow(post, now)}

\* _save_to_sqlite of src/stage2_crawl_posts.py (lines 456-518)
RECURSIVE _save_to_sqlite_ignore(_, _, _)
_save_to_sqlite_ignore(table, posts_data, now) ==
    IF posts_data = <<>> THEN table
    ELSE _save_to_sqlite_ignore(InsertOrIgnore(table, Head(posts_data), now),
                                Tail(posts_data), now)

\* save_data that does not clear the buffer
save_data_KeepBuffer(buffer, table, total, progress, cur, now) ==
    IF buffer = <<>>
    THEN [all_posts_data |-> buffer, posts |-> table, total_crawled_count |-> total,
          progress_file |-> progress]
    ELSE [all_posts_data |-> buffer,
          posts |-> _save_to_sqlite(table, buffer, now),
          total_crawled_count |-> total + Len(buffer),
          progress_file |-> [exists |-> TRUE, current_index |-> cur,
                             total_crawled |-> total + Len(buffer)]]

\* save_data(current_index) followed by save_crawl_progress: the state after
save_data(buffer, table, total, progress, cur, now) ==
    IF buffer = <<>>
    THEN [all_posts_data |-> buffer, posts |-> table, total_crawled_count |-> total,
          progress_file |-> progress]
    ELSE [all_posts_data |-> <<>>,
          posts |-> _save_to_sqlite(table, buffer, now),
          total_crawled_count |-> total + Len(buffer),
          progress_file |-> [exists |-> TRUE, current_index |-> cur,
                             total_crawled |-> total + Len(buffer)]]

\* the circuit breaker test of lines 712 and 719
BreakerTrips_Late(failures) == failures > FailureLimit

BreakerTrips(failures) == failures >= FailureLimit

\* crawl_posts up to the loop: a new PostCrawler loads the frontier and the
\* pending indexes; with nothing pending it returns at once.
StartFetchRun ==
    /\ fpc \in {"idle", "done", "aborted"}
    /\ fetch_runs < MaxFetchRuns
    /\ fetch_runs' = fetch_runs + 1
    /\ prev_run' = [completed_normally |-> completed_normally,
                    failed_fetches |-> Cardinality({a \in 1..Len(attempts) : ~attempts[a].ok})]
    /\ posts_at_start' = posts
    /\ attempts' = <<>>
    /\ LET listed == load_url_list(urls_file, range_args[1], range_args[2])
       IN /\ start_index' = listed.start_index
          /\ end_index' = listed.end_index
          /\ IF listed.ok
             THEN LET loaded == load_crawl_progress(posts, SubredditName,
                                                    listed.start_index,
                                                    listed.end_index, progress_file)
                  IN /\ pending_indexes' = loaded.pending_indexes
                     /\ total_crawled_count' = loaded.total_crawled
                     /\ fpc' = IF loaded.pending_indexes = <<>> THEN "done" ELSE "loop"
             ELSE /\ pending_indexes' = <<>>
                  /\ total_crawled_count' = 0
                  /\ fpc' = "aborted"
    /\ loop_i' = 0
    /\ current_index' = range_args[1]
    /\ consecutive_failures' = 0
    /\ all_posts_data' = <<>>
    /\ completed_normally' = FALSE
    /\ UNCHANGED <<upstream_subreddit, posts, progress_file, fetch_faults_left,
                   urls_file, range_args>>
    /\ UNCHANGED NotFetch

\* The end of one loop iteration: the next iteration, or (after a break or
\* the last pending index) lines 723-742 with the final save_data.
EndIteration(index, failures, brk, saved) ==
    IF brk \/ loop_i = Len(pending_indexes) - 1
    THEN LET final == save_data(saved.all_posts_data, saved.posts,
                                saved.total_crawled_count, saved.progress_file,
                                index, fetch_runs)
         IN /\ fpc' = "done"
            /\ completed_normally' =
                  (loop_i = Len(pending_indexes) - 1 /\ failures < FailureLimit)
            /\ all_posts_data' = final.all_posts_data
            /\ posts' = final.posts
            /\ total_crawled_count' = final.total_crawled_count
            /\ progress_file' = final.progress_file
            /\ loop_i' = loop_i
    ELSE /\ fpc' = "loop"
         /\ loop_i' = loop_i + 1
         /\ all_posts_data' = saved.all_posts_data
         /\ posts' = saved.posts
         /\ total_crawled_count' = saved.total_crawled_count
         /\ progress_file' = saved.progress_file
         /\ UNCHANGED completed_normally

FetchFrame ==
    /\ UNCHANGED <<upstream_subreddit, start_index, end_index, pending_indexes,
                   fetch_runs, posts_at_start, prev_run, urls_file, range_args>>
    /\ UNCHANGED NotFetch

Unsaved ==
    [all_posts_data |-> all_posts_data, posts |-> posts,
     total_crawled_count |-> total_crawled_count, progress_file |-> progress_file]

\* fetch_post_json returned post_data (lines 702-708)
FetchSucceeds ==
    /\ fpc = "loop"
    /\ LET index == pending_indexes[loop_i + 1]
           buffer == Append(all_posts_data, PostData(index, upstream_subreddit))
           saved == IF Len(buffer) % BatchSize = 0
                    THEN save_data(buffer, posts, total_crawled_count, progress_file,
                                   index, fetch_runs)
                    ELSE [Unsaved EXCEPT !.all_posts_data = buffer]
       IN /\ current_index' = index
          /\ consecutive_failures' = 0
          /\ attempts' = Append(attempts, [index |-> index, ok |-> TRUE])
          /\ EndIteration(index, 0, FALSE, saved)
    /\ UNCHANGED fetch_faults_left
    /\ FetchFrame

\* a failed fetch: consecutive_failures += 1, break at the limit
FailedFetch ==
    /\ fetch_faults_left # 0
    /\ fetch_faults_left' = IF fetch_faults_left = Unlimited THEN Unlimited
                             ELSE fetch_faults_left - 1
    /\ LET index == pending_indexes[loop_i + 1]
       IN /\ current_index' = index
          /\ consecutive_failures' = consecutive_failures + 1
          /\ attempts' = Append(attempts, [index |-> index, ok |-> FALSE])
          /\ EndIteration(index, consecutive_failures + 1,
                          BreakerTrips(consecutive_failures + 1), Unsaved)
    /\ FetchFrame

\* fetch_post_json returned None (lines 709-714)
FetchReturnsNone == fpc = "loop" /\ FailedFetch

\* the iteration raised an exception (lines 716-721)
FetchRaises == fpc = "loop" /\ FailedFetch

\* an interrupt that ends the run without saving the buffer
FetchInterrupted_NoSave ==
    /\ fpc = "loop"
    /\ current_index' = pending_indexes[loop_i + 1]
    /\ fpc' = "done"
    /\ UNCHANGED <<loop_i, consecutive_failures, completed_normally, attempts,
                   fetch_faults_left, all_posts_data, posts, total_crawled_count,
                   progress_file>>
    /\ FetchFrame

\* KeyboardInterrupt while the fetch of pending_indexes[i] is awaited
\* (lines 728-735): the buffer is saved, the run ends
FetchInterrupted ==
    /\ fpc = "loop"
    /\ LET index == pending_indexes[loop_i + 1]
           final == save_data(all_posts_data, posts, total_crawled_count, progress_file,
                              index, fetch_runs)
       IN /\ current_index' = index
          /\ fpc' = "done"
          /\ all_posts_data' = final.all_posts_data
          /\ posts' = final.posts
          /\ total_crawled_count' = final.total_crawled_count
          /\ progress_file' = final.progress_file
    /\ UNCHANGED <<loop_i, consecutive_failures, completed_normally, attempts,
                   fetch_faults_left>>
    /\ FetchFrame

\* The loop is left without an attempt in flight: url_list[index]["url"]
\* raises at the top of an iteration (lines 692-693, caught at line 730), or
\* the interrupt arrives during the sleep of line 721.  current_index is the
\* one of the previous iteration; the buffer is saved, the run ends.
FetchLoopRaises ==
    /\ fpc = "loop"
    /\ LET final == save_data(all_posts_data, posts, total_crawled_count, progress_file,
                              current_index, fetch_runs)
       IN /\ fpc' = "done"
          /\ all_posts_data' = final.all_posts_data
          /\ posts' = final.posts
          /\ total_crawled_count' = final.total_crawled_count
          /\ progress_file' = final.progress_file
    /\ UNCHANGED <<loop_i, current_index, consecutive_failures, completed_normally,
                   attempts, fetch_faults_left>>
    /\ FetchFrame

\* Between two runs the progress file is lost, damaged, or replaced by an
\* older or a newer one.
ProgressFileChanges ==
    /\ fpc = "done"
    /\ fetch_runs < MaxFetchRuns
    /\ fpc' = "idle"
    /\ progress_file' \in ProgressViews(start_index, end_index) \ {progress_file}
    /\ UNCHANGED <<loop_i, current_index, consecutive_failures, all_posts_data,
                   total_crawled_count, completed_normally, posts, attempts,
                   fetch_faults_left>>
    /\ FetchFrame

\* the post whose row an analysis result is attached to
AnalysedPost == _extract_post_id(FrontierUrl(0))

\* Between two runs an analysis result is attached, by post ID, to the row
\* of a stored post (the llm_analyze_result column of _init_database).
AttachAnalysis ==
    /\ fpc \in {"done", "idle"}
    /\ fetch_runs < MaxFetchRuns
    /\ fpc' = "idle"
    /\ \E r \in posts :
          /\ r.post_id = AnalysedPost
          /\ r.llm_analyze_result = NoResult
          /\ posts' = (posts \ {r}) \cup {[r EXCEPT !.llm_analyze_result = "analysed"]}
    /\ UNCHANGED <<loop_i, current_index, consecutive_failures, all_posts_data,
                   total_crawled_count, completed_normally, progress_file, attempts,
                   fetch_faults_left>>
    /\ FetchFrame

InitFetch ==
    /\ fpc = "idle"
    /\ upstream_subreddit \in UpstreamViews
    /\ \E sc \in FetchScenarios :
          /\ urls_file = sc.urls_file
          /\ range_args = sc.range
          /\ start_index = sc.range[1]
          /\ end_index = sc.range[2]
          /\ fetch_faults_left = sc.fetch_faults
    /\ pending_indexes = <<>>
    /\ loop_i = 0
    /\ current_index = 0
    /\ consecutive_failures = 0
    /\ all_posts_data = <<>>
    /\ total_crawled_count = 0
    /\ completed_normally = FALSE
    /\ posts = {}
    /\ progress_file = NoProgressFile
    /\ fetch_runs = 0
    /\ attempts = <<>>
    /\ posts_at_start = {}
    /\ prev_run = NoRun

FetchOff ==
    /\ fpc = "off"
    /\ upstream_subreddit = [p \in 1..LongFrontier |-> SubredditName]
    /\ start_index = 0
    /\ end_index = 0
    /\ pending_indexes = <<>>
    /\ loop_i = 0
    /\ current_index = 0
    /\ consecutive_failures = 0
    /\ all_posts_data = <<>>
    /\ total_crawled_count = 0
    /\ completed_normally = FALSE
    /\ posts = {}
    /\ progress_file = NoProgressFile
    /\ fetch_runs = 0
    /\ attempts = <<>>
    /\ posts_at_start = {}
    /\ prev_run = NoRun
    /\ fetch_faults_left = 0
    /\ urls_file = "missing"
    /\ range_args = <<0, 0>>

NextFetch ==
    \/ StartFetchRun
    \/ FetchSucceeds
    \/ FetchReturnsNone
    \/ FetchRaises
    \/ FetchInterrupted
    \/ FetchLoopRaises
    \/ ProgressFileChanges
    \/ AttachAnalysis

(***************************************************************************)
(* _atomic_write_json (src/stage2_crawl_posts_pullpush.py lines 162-177;   *)
(* the same code in src/v3/stage1_collect_urls.py and                      *)
(* src/utils/update_json_schema.py).                                       *)
(* A file holds a sequence of chunks; json.dump(data) produces the chunks  *)
(* of the document of `data` one after the other.                          *)
(***************************************************************************)
MaxData == 2          \* data values a call can be given: 1..MaxData
DocChunks == 2        \* chunks json.dump produces for one document

NoFile == <<"no such file">>

\* json.dump(data, f, ...): the complete document of `data`
Document(data) == [k \in 1..DocChunks |-> [of |-> data, part |-> k]]

TargetPath == <<"progress.json">>

temp_file_InPlace(file_path) == file_path

\* temp_file = file_path + ".tmp"
temp_file(file_path) == Append(file_path, ".tmp")

Paths == {TargetPath, temp_file(TargetPath)}

\* the except clause: remove the temp file if it exists, then re-raise
RaiseFromWrite ==
    /\ wpc' = "raised"
    /\ \/ fs' = [fs EXCEPT ![temp_file(TargetPath)] = NoFile]
       \/ fs' = fs                    \* os.remove raised: "except: pass"
    /\ f_buffer' = <<>>

\* open(temp_file, 'w'): the temp file is created or truncated
OpenTemp(data) ==
    /\ wpc \in {"idle", "raised"}
    /\ wpc' = "open"
    /\ w_data' = data
    /\ w_old' = fs[TargetPath]
    /\ fs' = [fs EXCEPT ![temp_file(TargetPath)] = <<>>]
    /\ f_buffer' = <<>>
    /\ w_pos' = 0
    /\ UNCHANGED NotAtomic

\* open(temp_file, 'w') raises
OpenRaises(data) ==
    /\ wpc \in {"idle", "raised"}
    /\ w_data' = data
    /\ w_old' = fs[TargetPath]
    /\ w_pos' = 0
    /\ RaiseFromWrite
    /\ UNCHANGED NotAtomic

\* json.dump writes the next chunk into the buffer of f
WriteChunk ==
    /\ wpc = "open" /\ w_pos < DocChunks
    /\ f_buffer' = Append(f_buffer, Document(w_data)[w_pos + 1])
    /\ w_pos' = w_pos + 1
    /\ UNCHANGED <<wpc, fs, w_data, w_old>>
    /\ UNCHANGED NotAtomic

\* the buffer of f fills up and is handed to the OS
SpillBuffer ==
    /\ wpc = "open" /\ f_buffer # <<>>
    /\ fs' = [fs EXCEPT ![temp_file(TargetPath)] = @ \o f_buffer]
    /\ f_buffer' = <<>>
    /\ UNCHANGED <<wpc, w_data, w_old, w_pos>>
    /\ UNCHANGED NotAtomic

\* f.flush()
Flush ==
    /\ wpc = "open" /\ w_pos = DocChunks
    /\ fs' = [fs EXCEPT ![temp_file(TargetPath)] = @ \o f_buffer]
    /\ f_buffer' = <<>>
    /\ wpc' = "flushed"
    /\ UNCHANGED <<w_data, w_old, w_pos>>
    /\ UNCHANGED NotAtomic

\* os.fsync(f.fileno())
Fsync ==
    /\ wpc = "flushed"
    /\ wpc' = "synced"
    /\ UNCHANGED <<fs, w_data, w_old, f_buffer, w_pos>>
    /\ UNCHANGED NotAtomic

\* the with block ends: f is closed
CloseTemp ==
    /\ wpc = "synced"
    /\ wpc' = "closed"
    /\ UNCHANGED <<fs, w_data, w_old, f_buffer, w_pos>>
    /\ UNCHANGED NotAtomic

\* os.replace(temp_file, file_path): one atomic step of the file system
Replace ==
    /\ wpc = "closed"
    /\ fs' = [p \in DOMAIN fs |->
                IF p = TargetPath THEN fs[temp_file(TargetPath)]
                ELSE IF p = temp_file(TargetPath) THEN NoFile
                ELSE fs[p]]
    /\ wpc' = "idle"
    /\ UNCHANGED <<w_data, w_old, f_buffer, w_pos>>
    /\ UNCHANGED NotAtomic

\* json.dump, flush, fsync or os.replace raises an Exception
WriteRaises ==
    /\ wpc \in {"open", "flushed", "synced", "closed"}
    /\ RaiseFromWrite
    /\ UNCHANGED <<w_data, w_old, w_pos>>
    /\ UNCHANGED NotAtomic

\* the process dies: what the OS has of each file stays, the buffer is lost
Crash ==
    /\ wpc \in {"open", "flushed", "synced", "closed"}
    /\ wpc' = "crashed"
    /\ f_buffer' = <<>>
    /\ UNCHANGED <<fs, w_data, w_old, w_pos>>
    /\ UNCHANGED NotAtomic

\* a new process starts after a crash; a temp file may have stayed behind
Restart ==
    /\ wpc = "crashed"
    /\ wpc' = "idle"
    /\ UNCHANGED <<fs, w_data, w_old, f_buffer, w_pos>>
    /\ UNCHANGED NotAtomic

InitAtomic ==
    /\ wpc = "idle"
    /\ fs = [p \in Paths |-> NoFile]
    /\ w_data = 1
    /\ w_old = NoFile
    /\ f_buffer = <<>>
    /\ w_pos = 0

AtomicOff ==
    /\ wpc = "off"
    /\ fs = [p \in Paths |-> NoFile]
    /\ w_data = 1
    /\ w_old = NoFile
    /\ f_buffer = <<>>
    /\ w_pos = 0

NextAtomic ==
    \/ \E data \in 1..MaxData : OpenTemp(data)
    \/ \E data \in 1..MaxData : OpenRaises(data)
    \/ WriteChunk
    \/ SpillBuffer
    \/ Flush
    \/ Fsync
    \/ CloseTemp
    \/ Replace
    \/ WriteRaises
    \/ Crash
    \/ Restart

(***************************************************************************)
(* PostCrawler.save_data of src/stage2_crawl_posts.py (lines 416-454; the  *)
(* same write in RedditCrawler.save_data of src/crawler.py): the batch is  *)
(* appended to the output JSON file.  The file holds chunks as above; a    *)
(* document is the JSON text of a list of items.                           *)
(***************************************************************************)
MaxDocs == 3          \* items the output file can hold

\* os.path.exists(self.output_file) is false
NoOutputFile == [exists |-> FALSE, chunks |-> <<>>]

\* the file that holds the JSON text of `data` and nothing else
OutputOf(data) == [exists |-> TRUE, chunks |-> Document(data)]

\* self.all_posts_data at a flush: item IDs
DocBatches == {<<1>>, <<2>>, <<1, 2>>}

\* json.load of the output file: the list, when the file is one complete
\* document
IsDocument(file) ==
    /\ file.exists
    /\ Len(file.chunks) = DocChunks
    /\ \A k \in 1..DocChunks :
          file.chunks[k].part = k /\ file.chunks[k].of = file.chunks[1].of

\* lines 424-432: existing_data is [] when the file is absent or json.load
\* raises
ReadExisting(file) == IF IsDocument(file) THEN file.chunks[1].of ELSE <<>>

\* lines 424-437: existing data is read, open(self.output_file, 'w') creates
\* or truncates the file
OpenOutput(batch) ==
    /\ dpc = "idle"
    /\ Len(ReadExisting(output_file)) + Len(batch) <= MaxDocs
    /\ dpc' = "open"
    /\ d_old' = output_file
    /\ d_batch' = batch
    /\ d_all' = ReadExisting(output_file) \o batch
    /\ output_file' = [exists |-> TRUE, chunks |-> <<>>]
    /\ d_buffer' = <<>>
    /\ d_pos' = 0
    /\ UNCHANGED d_stored
    /\ UNCHANGED NotDoc

\* json.dump writes the next chunk into the buffer of f
DumpChunk ==
    /\ dpc = "open" /\ d_pos < DocChunks
    /\ d_buffer' = Append(d_buffer, Document(d_all)[d_pos + 1])
    /\ d_pos' = d_pos + 1
    /\ UNCHANGED <<dpc, output_file, d_old, d_batch, d_all, d_stored>>
    /\ UNCHANGED NotDoc

\* the buffer of f fills up and is handed to the OS
SpillOutput ==
    /\ dpc = "open" /\ d_buffer # <<>>
    /\ output_file' = [output_file EXCEPT !.chunks = @ \o d_buffer]
    /\ d_buffer' = <<>>
    /\ UNCHANGED <<dpc, d_old, d_batch, d_all, d_pos, d_stored>>
    /\ UNCHANGED NotDoc

\* the with block ends: f is flushed and closed
CloseOutput ==
    /\ dpc = "open" /\ d_pos = DocChunks
    /\ output_file' = [output_file EXCEPT !.chunks = @ \o d_buffer]
    /\ d_buffer' = <<>>
    /\ dpc' = "idle"
    /\ d_stored' = d_all
    /\ UNCHANGED <<d_old, d_batch, d_all, d_pos>>
    /\ UNCHANGED NotDoc

\* the process dies during the flush: what the OS has of the file stays
CrashInFlush ==
    /\ dpc = "open"
    /\ dpc' = "crashed"
    /\ d_buffer' = <<>>
    /\ UNCHANGED <<output_file, d_old, d_batch, d_all, d_pos, d_stored>>
    /\ UNCHANGED NotDoc

\* a new process starts after the crash
RestartAfterFlush ==
    /\ dpc = "crashed"
    /\ dpc' = "idle"
    /\ UNCHANGED <<output_file, d_old, d_batch, d_all, d_buffer, d_pos, d_stored>>
    /\ UNCHANGED NotDoc

InitDoc ==
    /\ dpc = "idle"
    /\ output_file = NoOutputFile
    /\ d_old = NoOutputFile
    /\ d_batch = <<>>
    /\ d_all = <<>>
    /\ d_buffer = <<>>
    /\ d_pos = 0
    /\ d_stored = <<>>

DocOff ==
    /\ dpc = "off"
    /\ output_file = NoOutputFile
    /\ d_old = NoOutputFile
    /\ d_batch = <<>>
    /\ d_all = <<>>
    /\ d_buffer = <<>>
    /\ d_pos = 0
    /\ d_stored = <<>>

NextDoc ==
    \/ \E batch \in DocBatches : OpenOutput(batch)
    \/ DumpChunk
    \/ SpillOutput
    \/ CloseOutput
    \/ CrashInFlush
    \/ RestartAfterFlush

(***************************************************************************)
(* _save_to_sqlite on its own: the insert-or-ignore statement of           *)
(* src/stage2_crawl_posts.py and the insert-or-replace statement of        *)
(* src/stage2_crawl_posts_pullpush.py / _reddit.py, applied to batches.    *)
(***************************************************************************)
MaxStoreIds == 2      \* post IDs of the batches: 1..MaxStoreIds
MaxContents == 2      \* versions of the crawled fields of one post
MaxBatchLen == 2      \* posts in one batch
MaxWrites == 3        \* _save_to_sqlite calls in one behaviour

StorePosts ==
    {[index |-> id - 1, post_id |-> id, subreddit |-> SubredditName, content |-> c] :
        id \in 1..MaxStoreIds, c \in 1..MaxContents}

StoreBatches == SeqsUpTo(StorePosts, MaxBatchLen) \ {<<>>}

SaveToSqlite(mode, table, posts_data, now) ==
    IF mode = "ignore" THEN _save_to_sqlite_ignore(table, posts_data, now)
    ELSE _save_to_sqlite(table, posts_data, now)

\* self._save_to_sqlite(posts_data)
SaveBatch(batch) ==
    /\ spc \in {"idle", "wrote", "retried"}
    /\ s_clock < MaxWrites
    /\ spc' = "wrote"
    /\ s_prev' = s_table
    /\ s_batch' = batch
    /\ s_table' = SaveToSqlite(s_mode, s_table, batch, s_clock + 1)
    /\ s_clock' = s_clock + 1
    /\ UNCHANGED s_mode
    /\ UNCHANGED NotStore

\* the same call again, with the same batch
RetryBatch ==
    /\ spc = "wrote"
    /\ spc' = "retried"
    /\ s_prev' = s_table
    /\ s_table' = SaveToSqlite(s_mode, s_table, s_batch, s_clock + 1)
    /\ s_clock' = s_clock + 1
    /\ UNCHANGED <<s_mode, s_batch>>
    /\ UNCHANGED NotStore

InitStore ==
    /\ spc = "idle"
    /\ s_mode \in {"ignore", "replace"}
    /\ s_table = {}
    /\ s_prev = {}
    /\ s_batch = <<>>
    /\ s_clock = 0

StoreOff ==
    /\ spc = "off"
    /\ s_mode = "replace"
    /\ s_table = {}
    /\ s_prev = {}
    /\ s_batch = <<>>
    /\ s_clock = 0

NextStore ==
    \/ \E batch \in StoreBatches : SaveBatch(batch)
    \/ RetryBatch

(***************************************************************************)
(* Two store-backed PostCrawler processes (src/stage2_crawl_posts_pullpush *)
(* .py) started on the same subreddit with disjoint index ranges: each has *)
(* its own memory, both write the posts table of the one database file,    *)
(* and the progress file of each is named after its range.  A flush is one *)
(* transaction of the database.                                            *)
(***************************************************************************)
PairTotal == 14       \* entries of the frontier the two instances share
PairSplit == 11       \* first index of the second range
MaxPairFaults == 1    \* failed fetches of one instance

Instances == {1, 2}

\* (start_index, end_index) of each instance
PairRange(k) == IF k = 1 THEN <<0, PairSplit - 1>> ELSE <<PairSplit, PairTotal - 1>>

PairUpstream == [id \in 1..PairTotal |-> SubredditName]

\* a progress file name that does not depend on the range
_setup_range_files_NoSuffix(s, e) == <<"crawl_progress">>

\* _setup_range_files: the progress file name carries start_index and
\* end_index
_setup_range_files(s, e) == <<"crawl_progress", s, e>>

ProgressPaths ==
    {_setup_range_files(PairRange(k)[1], PairRange(k)[2]) : k \in Instances}
    \cup {_setup_range_files_NoSuffix(0, 0)}

PathOf(k) == _setup_range_files(PairRange(k)[1], PairRange(k)[2])

NotStarted ==
    [pc |-> "idle", pending_indexes |-> <<>>, loop_i |-> 0, current_index |-> 0,
     consecutive_failures |-> 0, all_posts_data |-> <<>>, total_crawled_count |-> 0,
     fetched |-> {}, faults_left |-> MaxPairFaults]

\* crawl_posts of instance k up to the loop
PairStart(k) ==
    /\ ppc = "on" /\ inst[k].pc = "idle"
    /\ LET loaded == load_crawl_progress(pair_posts, SubredditName, PairRange(k)[1],
                                         PairRange(k)[2], pair_files[PathOf(k)])
       IN inst' = [inst EXCEPT ![k] =
                     [@ EXCEPT !.pc = IF loaded.pending_indexes = <<>> THEN "done" ELSE "loop",
                               !.pending_indexes = loaded.pending_indexes,
                               !.total_crawled_count = loaded.total_crawled,
                               !.current_index = PairRange(k)[1]]]
    /\ UNCHANGED <<ppc, pair_posts, pair_files, pair_clock, pair_prev>>
    /\ UNCHANGED NotPair

\* save_data of instance k on the shared table and on its progress file
PairSave(k, me, index) ==
    LET saved == save_data(me.all_posts_data, pair_posts, me.total_crawled_count,
                           pair_files[PathOf(k)], index, pair_clock + 1)
    IN /\ pair_posts' = saved.posts
       /\ pair_files' = [pair_files EXCEPT ![PathOf(k)] = saved.progress_file]
       /\ pair_clock' = IF me.all_posts_data = <<>> THEN pair_clock ELSE pair_clock + 1
       /\ pair_prev' = IF me.all_posts_data = <<>> THEN pair_prev
                       ELSE [posts |-> pair_posts, by |-> k]
       /\ inst' = [inst EXCEPT ![k] =
                     [me EXCEPT !.all_posts_data = saved.all_posts_data,
                                !.total_crawled_count = saved.total_crawled_count]]

\* the end of an iteration of instance k: the flush at a full batch, the
\* final save_data after a break or the last pending index
PairEndIteration(k, me, index, ok, brk) ==
    LET last == brk \/ me.loop_i = Len(me.pending_indexes) - 1
        after == [me EXCEPT !.pc = IF last THEN "done" ELSE "loop",
                            !.loop_i = IF last THEN @ ELSE @ + 1,
                            !.current_index = index]
    IN IF last \/ (ok /\ Len(after.all_posts_data) % BatchSize = 0)
       THEN PairSave(k, after, index)
       ELSE /\ inst' = [inst EXCEPT ![k] = after]
            /\ UNCHANGED <<pair_posts, pair_files, pair_clock, pair_prev>>

\* fetch_post_json of instance k returned post_data
PairFetchSucceeds(k) ==
    /\ ppc = "on" /\ inst[k].pc = "loop"
    /\ LET index == inst[k].pending_indexes[inst[k].loop_i + 1]
           me == [inst[k] EXCEPT
                     !.all_posts_data = Append(@, PostData(index, PairUpstream)),
                     !.consecutive_failures = 0,
                     !.fetched = @ \cup {index}]
       IN PairEndIteration(k, me, index, TRUE, FALSE)
    /\ UNCHANGED ppc
    /\ UNCHANGED NotPair

\* fetch_post_json of instance k returned None or raised
PairFetchFails(k) ==
    /\ ppc = "on" /\ inst[k].pc = "loop"
    /\ inst[k].faults_left > 0
    /\ LET index == inst[k].pending_indexes[inst[k].loop_i + 1]
           me == [inst[k] EXCEPT !.consecutive_failures = @ + 1,
                                  !.faults_left = @ - 1]
       IN PairEndIteration(k, me, index, FALSE, BreakerTrips(me.consecutive_failures))
    /\ UNCHANGED ppc
    /\ UNCHANGED NotPair

\* KeyboardInterrupt in instance k while a fetch is awaited
PairInterrupted(k) ==
    /\ ppc = "on" /\ inst[k].pc = "loop"
    /\ LET index == inst[k].pending_indexes[inst[k].loop_i + 1]
       IN PairSave(k, [inst[k] EXCEPT !.pc = "done", !.current_index = index], index)
    /\ UNCHANGED ppc
    /\ UNCHANGED NotPair

InitPair ==
    /\ ppc = "on"
    /\ inst = [k \in Instances |-> NotStarted]
    /\ pair_posts = {}
    /\ pair_files = [path \in ProgressPaths |-> NoProgressFile]
    /\ pair_clock = 0
    /\ pair_prev = [posts |-> {}, by |-> 1]

PairOff ==
    /\ ppc = "off"
    /\ inst = [k \in Instances |-> NotStarted]
    /\ pair_posts = {}
    /\ pair_files = [path \in ProgressPaths |-> NoProgressFile]
    /\ pair_clock = 0
    /\ pair_prev = [posts |-> {}, by |-> 1]

NextPair ==
    \E k \in Instances :
        \/ PairStart(k)
        \/ PairFetchSucceeds(k)
        \/ PairFetchFails(k)
        \/ PairInterrupted(k)

(***************************************************************************)
(* PostCrawler.crawl_posts of src/stage2_crawl_posts.py (lines 665-749):   *)
(* the fetch loop that resumes from the index in the progress file and     *)
(* removes that file after a run it takes for complete.  Items are         *)
(* numbered from 1.                                                        *)
(***************************************************************************)
MaxCursorTotal == 4   \* entries of the frontier: 3..MaxCursorTotal
MaxCursorRuns == 2    \* crawl_posts invocations in one behaviour

CursorFailureLimit == 3    \* consecutive_failures >= 3: break

\* load_crawl_progress (lines 384-401): the index to resume from and the
\* stored count; an absent or unreadable file starts over
load_crawl_progress_cursor(progress) ==
    IF progress.exists /\ progress # CorruptProgressFile
    THEN [current_index |-> progress.current_index, total_crawled |-> progress.total_crawled]
    ELSE [current_index |-> 1, total_crawled |-> 0]

\* save_data(current_index) of src/stage2_crawl_posts.py (lines 416-454), as
\* far as the counters and the progress file go
save_data_cursor(buffer, total, progress, cur) ==
    IF buffer = <<>>
    THEN [all_posts_data |-> buffer, total_crawled_count |-> total,
          progress_file |-> progress]
    ELSE [all_posts_data |-> <<>>, total_crawled_count |-> total + Len(buffer),
          progress_file |-> [exists |-> TRUE, current_index |-> cur,
                             total_crawled |-> total + Len(buffer)]]

CursorMemory ==
    [all_posts_data |-> x_buffer, total_crawled_count |-> x_crawled,
     progress_file |-> x_progress, output |-> x_output]

\* save_data(current_index) on the memory of the run and the output file:
\* all_data = existing_data + self.all_posts_data, written back (lines
\* 423-436)
CursorFlush(mem, cur) ==
    LET saved == save_data_cursor(mem.all_posts_data, mem.total_crawled_count,
                                  mem.progress_file, cur)
    IN [all_posts_data |-> saved.all_posts_data,
        total_crawled_count |-> saved.total_crawled_count,
        progress_file |-> saved.progress_file,
        output |-> mem.output \o mem.all_posts_data]

\* Lines 729-749: the try block is left by way `exit`, with the given
\* completed_normally and current_index: final save_data, then the removal
\* of the progress file when completed_normally is set (os.remove of an
\* absent file raises and is passed over).
CursorFinally(exit, completed, cur, mem) ==
    LET final == CursorFlush(mem, cur)
    IN /\ xpc' = "done"
       /\ x_output' = final.output
       /\ x_exit' = exit
       /\ x_completed' = completed
       /\ x_index' = cur
       /\ x_buffer' = final.all_posts_data
       /\ x_crawled' = final.total_crawled_count
       /\ x_removed' = (completed /\ final.progress_file.exists)
       /\ x_progress' = IF completed THEN NoProgressFile ELSE final.progress_file

\* crawl_posts up to init_browser (lines 667-684)
StartCursorRun ==
    /\ xpc \in {"idle", "done"}
    /\ x_runs < MaxCursorRuns
    /\ x_runs' = x_runs + 1
    /\ x_failures' = 0
    /\ LET loaded == load_crawl_progress_cursor(x_progress)
           mem == [all_posts_data |-> <<>>, total_crawled_count |-> loaded.total_crawled,
                   progress_file |-> x_progress, output |-> x_output]
       IN /\ x_resumed' = loaded.current_index
          /\ IF loaded.current_index > x_total
             THEN \* "crawl already finished": return, the finally block runs
                  CursorFinally("finished before", FALSE, loaded.current_index, mem)
             ELSE /\ xpc' = "init"
                  /\ x_exit' = "none"
                  /\ x_index' = loaded.current_index
                  /\ x_crawled' = loaded.total_crawled
                  /\ x_removed' = FALSE
                  /\ x_completed' = FALSE
                  /\ x_buffer' = <<>>
                  /\ UNCHANGED <<x_progress, x_output>>
    /\ UNCHANGED <<x_total, x_attempted, x_fetched>>
    /\ UNCHANGED NotCursor

\* init_browser returns: the loop starts at item current_index
BrowserStarts ==
    /\ xpc = "init"
    /\ xpc' = "loop"
    /\ UNCHANGED <<x_total, x_index, x_failures, x_buffer, x_crawled, x_progress,
                   x_completed, x_exit, x_removed, x_runs, x_attempted, x_output,
                   x_fetched, x_resumed>>
    /\ UNCHANGED NotCursor

\* init_browser raises (line 731)
BrowserRaises ==
    /\ xpc = "init"
    /\ CursorFinally("exception", FALSE, x_index, CursorMemory)
    /\ UNCHANGED <<x_total, x_failures, x_runs, x_attempted, x_fetched, x_resumed>>
    /\ UNCHANGED NotCursor

\* The end of the iteration on item x_index: the next item, or the end of
\* the loop (break, or the last item) with the test of line 725.
CursorEndIteration(brk, mem) ==
    IF brk \/ x_index = x_total
    THEN CursorFinally(IF brk THEN "break" ELSE "exhausted", x_index >= x_total,
                       x_index, mem)
    ELSE /\ xpc' = "loop"
         /\ x_index' = x_index + 1
         /\ x_buffer' = mem.all_posts_data
         /\ x_crawled' = mem.total_crawled_count
         /\ x_progress' = mem.progress_file
         /\ x_output' = mem.output
         /\ UNCHANGED <<x_completed, x_exit, x_removed>>

\* Lines 699-704: post_data is appended, and every tenth item of the buffer
\* starts save_data(current_index)
CursorAppended ==
    LET mem == [CursorMemory EXCEPT !.all_posts_data = Append(x_buffer, x_index)]
    IN IF Len(mem.all_posts_data) % BatchSize = 0 THEN CursorFlush(mem, x_index) ELSE mem

\* fetch_post_json returned post_data (lines 698-704)
CursorFetchSucceeds ==
    /\ xpc = "loop"
    /\ x_attempted' = x_attempted \cup {x_index}
    /\ x_failures' = 0
    /\ x_fetched' = x_fetched \cup {x_index}
    /\ CursorEndIteration(FALSE, CursorAppended)
    /\ UNCHANGED <<x_total, x_runs, x_resumed>>
    /\ UNCHANGED NotCursor

\* KeyboardInterrupt in the delay after item x_index was fetched and
\* appended (line 713, inside the try block)
CursorInterruptedInDelay ==
    /\ xpc = "loop"
    /\ x_attempted' = x_attempted \cup {x_index}
    /\ x_fetched' = x_fetched \cup {x_index}
    /\ x_failures' = 0
    /\ CursorFinally("interrupt", FALSE, x_index, CursorAppended)
    /\ UNCHANGED <<x_total, x_runs, x_resumed>>
    /\ UNCHANGED NotCursor

\* fetch_post_json returned None or the iteration raised (lines 705-721)
CursorFetchFails ==
    /\ xpc = "loop"
    /\ x_attempted' = x_attempted \cup {x_index}
    /\ x_failures' = x_failures + 1
    /\ CursorEndIteration(x_failures + 1 >= CursorFailureLimit, CursorMemory)
    /\ UNCHANGED <<x_total, x_runs, x_fetched, x_resumed>>
    /\ UNCHANGED NotCursor

\* KeyboardInterrupt while the fetch of item x_index is awaited (line 729)
CursorInterrupted ==
    /\ xpc = "loop"
    /\ CursorFinally("interrupt", FALSE, x_index, CursorMemory)
    /\ UNCHANGED <<x_total, x_failures, x_runs, x_attempted, x_fetched, x_resumed>>
    /\ UNCHANGED NotCursor

InitCursor ==
    /\ xpc = "idle"
    /\ x_total \in 3..MaxCursorTotal
    /\ x_index = 1
    /\ x_failures = 0
    /\ x_buffer = <<>>
    /\ x_crawled = 0
    /\ x_progress = NoProgressFile
    /\ x_completed = FALSE
    /\ x_exit = "none"
    /\ x_removed = FALSE
    /\ x_runs = 0
    /\ x_attempted = {}
    /\ x_output = <<>>
    /\ x_fetched = {}
    /\ x_resumed = 1

CursorOff ==
    /\ xpc = "off"
    /\ x_total = 3
    /\ x_index = 1
    /\ x_failures = 0
    /\ x_buffer = <<>>
    /\ x_crawled = 0
    /\ x_progress = NoProgressFile
    /\ x_completed = FALSE
    /\ x_exit = "none"
    /\ x_removed = FALSE
    /\ x_runs = 0
    /\ x_attempted = {}
    /\ x_output = <<>>
    /\ x_fetched = {}
    /\ x_resumed = 1

NextCursor ==
    \/ StartCursorRun
    \/ BrowserStarts
    \/ BrowserRaises
    \/ CursorFetchSucceeds
    \/ CursorFetchFails
    \/ CursorInterrupted
    \/ CursorInterruptedInDelay

(***************************************************************************)
(* RedditCrawler.crawl_posts of src/crawler.py (lines 614-718),            *)
(* src/v1/crawler.py (608-697) and src/v2/crawler.py (721-818): one run    *)
(* collects the frontier and fetches it, with a state file that holds the  *)
(* index and the URL list.  Items are numbered from 1 and a URL list is    *)
(* given by its length; upstream yields the same list at every collection. *)
(***************************************************************************)
MaxCrawlPosts == 3    \* max_posts: 2..MaxCrawlPosts, and BatchSize + 1
MaxCrawlRuns == 2     \* crawl_posts invocations in one behaviour
MaxCrawlFaults == 3   \* fetches that fail in one behaviour

CrawlFailureLimit == 3     \* max_failures=3 / consecutive_failures >= 3

NoStateFile ==
    [exists |-> FALSE, current_post_index |-> 0, urls |-> 0,
     url_collection_progress |-> FALSE]

\* crawl_save_progress(current_index, urls) as crawl_posts calls it: the whole
\* record is rewritten, without "url_collection_progress"
crawl_save_progress(cur, urls) ==
    [exists |-> TRUE, current_post_index |-> cur, urls |-> urls,
     url_collection_progress |-> FALSE]

\* save_url_collection_progress (src/v2/crawler.py lines 305-337)
crawl_save_url_collection_progress(got_urls) ==
    [exists |-> TRUE, current_post_index |-> 1, urls |-> got_urls,
     url_collection_progress |-> TRUE]

\* update_progress_index: the index of an existing state file is replaced; a
\* missing file raises inside the try and nothing is written
crawl_update_progress_index(state, cur) ==
    IF state.exists THEN [state EXCEPT !.current_post_index = cur] ELSE state

\* load_progress of the three files.  `reuse` tells crawl_posts to fetch the
\* loaded URL list instead of collecting.
crawl_load_progress(crawler, state, target) ==
    LET fresh == [current_index |-> 1, urls |-> 0, reuse |-> FALSE]
        cur == state.current_post_index
    IN IF ~state.exists THEN fresh
       ELSE CASE crawler = "crawler" ->
                     \* lines 311-349, resume_from_post = 1
                     IF state.urls = 0 THEN fresh
                     ELSE [current_index |-> IF cur > state.urls THEN 1 ELSE cur,
                           urls |-> state.urls, reuse |-> TRUE]
              [] crawler = "v1" ->
                     \* lines 322-339
                     IF state.urls > 0 /\ cur <= state.urls
                     THEN [current_index |-> cur, urls |-> state.urls, reuse |-> TRUE]
                     ELSE fresh
              [] OTHER ->
                     \* src/v2/crawler.py lines 362-399
                     IF state.urls >= target
                     THEN [current_index |-> IF cur <= state.urls THEN cur ELSE 1,
                           urls |-> state.urls, reuse |-> TRUE]
                     ELSE IF ~state.url_collection_progress
                          THEN fresh   \* raise ValueError, caught: 1, [], False, {}
                          ELSE [current_index |-> 1, urls |-> state.urls,
                                reuse |-> FALSE]

\* save_data: src/crawler.py (351-375) rewrites the output with the buffer
\* appended and keeps the buffer; v1 and v2 (save_data(current_index)) also
\* clear the buffer and update the index of the state file.
crawl_save_data(crawler, buffer, output, state, cur) ==
    IF crawler = "crawler"
    THEN [buffer |-> buffer, output |-> output \o buffer, state |-> state]
    ELSE IF buffer = <<>>
         THEN [buffer |-> buffer, output |-> output, state |-> state]
         ELSE [buffer |-> <<>>, output |-> output \o buffer,
               state |-> crawl_update_progress_index(state, cur)]

CrawlMemory == [buffer |-> r_buffer, output |-> r_output, state |-> r_state]

\* The finally block: the try block is left by way `exit` with the given
\* completed_normally.  In v1 the call is self.save_data() for a method
\* that requires current_index: the TypeError leaves the block.
CrawlFinally(exit, completed, mem) ==
    LET raises == r_variant = "v1" /\ mem.buffer # <<>>
        saved == IF mem.buffer # <<>> /\ ~raises
                 THEN crawl_save_data(r_variant, mem.buffer, mem.output, mem.state,
                                      r_index)
                 ELSE mem
    IN /\ rpc' = "done"
       /\ r_exit' = [by |-> exit, completed |-> completed, buffer |-> mem.buffer,
                     raised |-> raises]
       /\ r_buffer' = <<>>
       /\ r_output' = saved.output
       /\ r_state' = IF completed /\ ~raises THEN NoStateFile ELSE saved.state

\* what collect_post_urls returns
CollectedUrls == IF r_avail < r_max_posts THEN r_avail ELSE r_max_posts

\* crawl_posts up to the fetch of the first item
CrawlStart ==
    /\ rpc \in {"idle", "done"}
    /\ r_runs < MaxCrawlRuns
    /\ r_runs' = r_runs + 1
    /\ LET loaded == crawl_load_progress(r_variant, r_state, r_max_posts)
           urls == IF loaded.reuse THEN loaded.urls ELSE CollectedUrls
           cur == IF loaded.reuse THEN loaded.current_index ELSE 1
       IN /\ r_started' = [state |-> r_state, after |-> r_exit.by,
                           reuse |-> loaded.reuse, existing_urls |-> loaded.urls,
                           current_index |-> cur]
          /\ r_total' = urls
          /\ r_index' = cur
          /\ r_state' = IF r_variant = "crawler" THEN crawl_save_progress(cur, urls)
                        ELSE IF loaded.reuse THEN r_state
                        ELSE crawl_save_progress(1, urls)
    /\ rpc' = "loop"
    /\ r_failures' = 0
    /\ r_buffer' = <<>>
    /\ r_exit' = [by |-> "none", completed |-> FALSE, buffer |-> <<>>, raised |-> FALSE]
    /\ UNCHANGED <<r_variant, r_max_posts, r_avail, r_output, r_fetched, r_faults>>
    /\ UNCHANGED NotCrawl

\* KeyboardInterrupt while collect_post_urls has `got` entries: v2 saves the
\* collection progress (lines 596-599), src/crawler.py an empty URL list
\* (line 697), v1 nothing
CrawlCollectionInterrupted ==
    /\ rpc \in {"idle", "done"}
    /\ r_runs < MaxCrawlRuns
    /\ LET loaded == crawl_load_progress(r_variant, r_state, r_max_posts)
       IN /\ ~loaded.reuse
          /\ \E got \in loaded.urls..(CollectedUrls - 1) :
                /\ r_started' = [state |-> r_state, after |-> r_exit.by,
                                 reuse |-> FALSE, existing_urls |-> loaded.urls,
                                 current_index |-> 1]
                /\ r_state' = CASE r_variant = "crawler" -> crawl_save_progress(1, 0)
                                [] r_variant = "v1" -> r_state
                                [] OTHER -> crawl_save_url_collection_progress(got)
    /\ r_runs' = r_runs + 1
    /\ rpc' = "done"
    /\ r_index' = 1
    /\ r_total' = 0
    /\ r_failures' = 0
    /\ r_buffer' = <<>>
    /\ r_exit' = [by |-> "collection interrupted", completed |-> FALSE,
                  buffer |-> <<>>, raised |-> FALSE]
    /\ UNCHANGED <<r_variant, r_max_posts, r_avail, r_output, r_fetched, r_faults>>
    /\ UNCHANGED NotCrawl

\* The end of the iteration on item r_index: the loop is left (break, or the
\* last item), or the next iteration starts: src/crawler.py writes
\* crawl_save_progress(current_post_index, ...) before it fetches (line 651).
CrawlEndIteration(brk, mem) ==
    IF brk \/ r_index = r_total
    THEN /\ CrawlFinally(IF brk THEN "break" ELSE "exhausted", r_index >= r_total, mem)
         /\ UNCHANGED r_index
    ELSE /\ rpc' = "loop"
         /\ r_index' = r_index + 1
         /\ r_buffer' = mem.buffer
         /\ r_output' = mem.output
         /\ r_state' = IF r_variant = "crawler" THEN crawl_save_progress(r_index + 1, r_total)
                       ELSE mem.state
         /\ UNCHANGED r_exit

\* fetch_post_json returned post_data
CrawlFetchSucceeds ==
    /\ rpc = "loop"
    /\ r_fetched' = r_fetched \cup {r_index}
    /\ r_failures' = 0
    /\ LET buffer == Append(r_buffer, r_index)
       IN CrawlEndIteration(FALSE,
              IF Len(buffer) % BatchSize = 0
              THEN crawl_save_data(r_variant, buffer, r_output, r_state, r_index)
              ELSE [CrawlMemory EXCEPT !.buffer = buffer])
    /\ UNCHANGED <<r_variant, r_max_posts, r_avail, r_total, r_runs, r_started, r_faults>>
    /\ UNCHANGED NotCrawl

\* fetch_post_json returned None or the iteration raised
CrawlFetchFails ==
    /\ rpc = "loop"
    /\ r_faults < MaxCrawlFaults
    /\ r_faults' = r_faults + 1
    /\ r_failures' = r_failures + 1
    /\ CrawlEndIteration(r_failures + 1 >= CrawlFailureLimit, CrawlMemory)
    /\ UNCHANGED <<r_variant, r_max_posts, r_avail, r_total, r_runs, r_started, r_fetched>>
    /\ UNCHANGED NotCrawl

\* KeyboardInterrupt while the fetch of item r_index is awaited; the handler
\* of src/crawler.py writes save_progress (line 697)
CrawlInterrupted ==
    /\ rpc = "loop"
    /\ CrawlFinally("interrupt", FALSE,
                    IF r_variant = "crawler"
                    THEN [CrawlMemory EXCEPT !.state = crawl_save_progress(r_index, r_total)]
                    ELSE CrawlMemory)
    /\ UNCHANGED <<r_variant, r_max_posts, r_avail, r_total, r_index, r_failures, r_runs,
                   r_started, r_fetched, r_faults>>
    /\ UNCHANGED NotCrawl

NotStartedCrawl ==
    [state |-> NoStateFile, after |-> "none", reuse |-> FALSE, existing_urls |-> 0,
     current_index |-> 1]

CrawlRest ==
    /\ r_state = NoStateFile
    /\ r_output = <<>>
    /\ r_buffer = <<>>
    /\ r_index = 1
    /\ r_total = 0
    /\ r_failures = 0
    /\ r_runs = 0
    /\ r_exit = [by |-> "none", completed |-> FALSE, buffer |-> <<>>, raised |-> FALSE]
    /\ r_fetched = {}
    /\ r_started = NotStartedCrawl
    /\ r_faults = 0

InitCrawl ==
    /\ rpc = "idle"
    /\ r_variant \in {"crawler", "v1", "v2"}
    /\ \/ /\ r_max_posts \in 2..MaxCrawlPosts
          /\ r_avail \in 1..MaxCrawlPosts
       \/ /\ r_max_posts = BatchSize + 1
          /\ r_avail = BatchSize + 1
    /\ CrawlRest

CrawlOff ==
    /\ rpc = "off"
    /\ r_variant = "crawler"
    /\ r_max_posts = 2
    /\ r_avail = 1
    /\ CrawlRest

NextCrawl ==
    \/ CrawlStart
    \/ CrawlCollectionInterrupted
    \/ CrawlFetchSucceeds
    \/ CrawlFetchFails
    \/ CrawlInterrupted

(***************************************************************************)
(* check_coverage of src/utils/merge_results.py (lines 74-112) over the    *)
(* range files find_range_files lists (lines 13-33).  A range file is the  *)
(* pair of integers of its name, <name>_data_<start>_<end>.json, which the *)
(* fetch loop forms from its 0-based start_index and end_index             *)
(* (stage2_crawl_posts_pullpush.py lines 226-236).                         *)
(***************************************************************************)
MaxCoverIndex == 3    \* starts and ends of range files: 0..MaxCoverIndex
MaxCoverFiles == 3    \* range files in the directory

RangeFiles ==
    {[start |-> s, end |-> e] : s \in 0..MaxCoverIndex, e \in 0..MaxCoverIndex}

\* sorted(range_files, key=lambda x: x['start']): a stable sort, the file
\* `f` goes behind the files of `sorted` with the same start
InsertByStart(f, sorted) ==
    LET ahead == SelectSeq(sorted, LAMBDA g : g.start <= f.start)
        behind == SelectSeq(sorted, LAMBDA g : g.start > f.start)
    IN ahead \o <<f>> \o behind

RECURSIVE SortByStart(_)
SortByStart(files) ==
    IF files = <<>> THEN <<>>
    ELSE InsertByStart(files[Len(files)], SortByStart(SubSeq(files, 1, Len(files) - 1)))

\* lines 87-94: the loop over the neighbours of the sorted list
RECURSIVE ScanNeighbours(_, _, _)
ScanNeighbours(sorted_files, i, acc) ==
    IF i > Len(sorted_files) THEN acc
    ELSE LET prev_end == sorted_files[i - 1].end
             curr_start == sorted_files[i].start
             curr_end == sorted_files[i].end
         IN ScanNeighbours(sorted_files, i + 1,
                IF curr_start > prev_end + 1
                THEN [acc EXCEPT !.gaps = Append(@, <<prev_end + 1, curr_start - 1>>)]
                ELSE IF curr_start <= prev_end
                THEN [acc EXCEPT !.overlaps =
                         Append(@, <<curr_start,
                                     IF prev_end < curr_end THEN prev_end ELSE curr_end>>)]
                ELSE acc)

\* check_coverage(range_files, total_count); total_count = 0 stands for a
\* missing or zero --total, which line 103 treats alike
check_coverage(range_files, total_count) ==
    IF range_files = <<>>
    THEN [covered |-> <<>>, gaps |-> <<>>, overlaps |-> <<>>]
    ELSE LET sorted_files == SortByStart(range_files)
             scan == ScanNeighbours(sorted_files, 2, [gaps |-> <<>>, overlaps |-> <<>>])
             first_start == sorted_files[1].start
             last_end == sorted_files[Len(sorted_files)].end
             head == IF first_start > 1 THEN <<<<1, first_start - 1>>>> ELSE <<>>
             tail == IF total_count # 0 /\ last_end < total_count
                     THEN <<<<last_end + 1, total_count>>>> ELSE <<>>
         IN [covered |-> [k \in 1..Len(sorted_files) |->
                             <<sorted_files[k].start, sorted_files[k].end>>],
             gaps |-> head \o scan.gaps \o tail,
             overlaps |-> scan.overlaps]

NoCoverage == [covered |-> <<>>, gaps |-> <<>>, overlaps |-> <<>>]

\* the tool is run on the directory (main, line 145)
CheckCoverage ==
    /\ vpc = "listed"
    /\ vpc' = "checked"
    /\ v_coverage' = check_coverage(v_files, v_total)
    /\ UNCHANGED <<v_files, v_total>>
    /\ UNCHANGED NotCover

InitCover ==
    /\ vpc = "listed"
    /\ v_files \in SeqsUpTo(RangeFiles, MaxCoverFiles)
    /\ \A k \in 1..Len(v_files) : v_files[k].start <= v_files[k].end
    /\ v_total \in 1..(MaxCoverIndex + 1)
    /\ v_coverage = NoCoverage

CoverOff ==
    /\ vpc = "off"
    /\ v_files = <<>>
    /\ v_total = 1
    /\ v_coverage = NoCoverage

NextCover == CheckCoverage

SinkOff == DocOff /\ StoreOff /\ PairOff /\ CursorOff /\ CrawlOff /\ CoverOff

(***************************************************************************)
(* Comment trees.                                                          *)
(*   flat:   _fetch_all_comments_from_pullpush, _parse_pullpush_comment,   *)
(*           _build_comment_tree, _count_comments_recursively              *)
(*           (src/stage2_crawl_posts_pullpush.py)                          *)
(*   nested: _parse_comment, _count_comments                               *)
(*           (src/stage2_crawl_posts_reddit.py)                            *)
(* A body is a sequence of words; a parent_id is a prefix and an ID.       *)
(***************************************************************************)
MaxFlatLen == 3       \* records in a comment search response
MaxCommentId == 3     \* comment IDs the response can mention: 1..MaxCommentId
MaxChildren == 2      \* children of a node of a nested comment listing

CommentIds == 1..MaxCommentId
NoCommentId == 0      \* a missing / empty "id"

\* body.lower(), word by word
LowerWord(w) ==
    CASE w = "I" -> "i"
      [] w = "Bot" -> "bot"
      [] w = "Moderator" -> "moderator"
      [] OTHER -> w

Lower(body) == [k \in 1..Len(body) |-> LowerWord(body[k])]

\* phrase in body_lower
Contains(text, phrase) ==
    \E k \in 0..(Len(text) - Len(phrase)) :
        \A j \in 1..Len(phrase) : text[k + j] = phrase[j]

_is_bot_or_mod_comment_or_deleted(author, body) ==
    \/ author = "AutoModerator" \/ author = "[deleted]"
    \/ LET body_lower == Lower(body)
       IN \/ Contains(body_lower, <<"i", "am", "a", "bot">>)
          \/ Contains(body_lower, <<"moderator">>)
          \/ Contains(body_lower, <<"[deleted]">>)

\* _is_bot_or_mod_comment (stage2_crawl_posts.py lines 599-610)
_is_bot_or_mod_comment(author, body) ==
    \/ author = "AutoModerator"
    \/ LET body_lower == Lower(body)
       IN \/ Contains(body_lower, <<"i", "am", "a", "bot">>)
          \/ Contains(body_lower, <<"moderator">>)

\* "text": body if body else "[无文本]"
TextOf(body) == IF body = <<>> THEN <<"[no text]">> ELSE body

NoComment == [none |-> TRUE]

\* _parse_pullpush_comment(comment_data, include_ids=True)
_parse_pullpush_comment(comment_data) ==
    IF _is_bot_or_mod_comment_or_deleted(comment_data.author, comment_data.body)
    THEN NoComment
    ELSE [author |-> comment_data.author,
          text |-> TextOf(comment_data.body),
          score |-> comment_data.score,
          replies |-> <<>>,
          reply_count |-> 0,
          comment_id |-> comment_data.id,
          parent_id |-> comment_data.parent_id]

\* lines 529-532: the parsed records that are not None, in response order
RECURSIVE ParseFlat(_)
ParseFlat(data) ==
    IF data = <<>> THEN <<>>
    ELSE LET parsed == _parse_pullpush_comment(Head(data))
         IN (IF parsed = NoComment THEN <<>> ELSE <<parsed>>) \o ParseFlat(Tail(data))

\* _build_comment_tree, first loop (lines 593-608): comment_dict as the keys
\* in insertion order and the record last stored under each key
RECURSIVE DictKeys(_, _)
DictKeys(flat, k) ==
    IF k = 0 THEN <<>>
    ELSE LET keys == DictKeys(flat, k - 1)
             comment_id == flat[k].comment_id
         IN IF comment_id = NoCommentId \/ comment_id \in Range(keys) THEN keys
            ELSE Append(keys, comment_id)

DictInfo(flat, comment_id) ==
    flat[CHOOSE k \in 1..Len(flat) :
            /\ flat[k].comment_id = comment_id
            /\ \A j \in (k + 1)..Len(flat) : flat[j].comment_id # comment_id]

\* second loop (lines 611-624), one key; links is [roots, replies]
PlaceOne_DropOrphan(links, comment_id, info, keys) ==
    LET parent_id == info.parent_id
    IN IF parent_id.prefix = "t3_"
       THEN [links EXCEPT !.roots = Append(@, comment_id)]
       ELSE IF parent_id.prefix = "t1_" /\ parent_id.id \in Range(keys)
       THEN [links EXCEPT !.replies[parent_id.id] = Append(@, comment_id)]
       ELSE links

PlaceOne(links, comment_id, info, keys) ==
    LET parent_id == info.parent_id
    IN IF parent_id.prefix = "t3_"
       THEN [links EXCEPT !.roots = Append(@, comment_id)]
       ELSE IF parent_id.prefix = "t1_"
       THEN IF parent_id.id \in Range(keys)
            THEN [links EXCEPT !.replies[parent_id.id] = Append(@, comment_id)]
            ELSE [links EXCEPT !.roots = Append(@, comment_id)]
       ELSE links

RECURSIVE PlaceAll(_, _, _)
PlaceAll(flat, keys, k) ==
    IF k = 0 THEN [roots |-> <<>>, replies |-> [c \in Range(keys) |-> <<>>]]
    ELSE PlaceOne(PlaceAll(flat, keys, k - 1), keys[k], DictInfo(flat, keys[k]), keys)

\* the "data" dictionary of a key with the replies lists reached from it
RECURSIVE NodeOf(_, _, _)
NodeOf(flat, links, comment_id) ==
    LET info == DictInfo(flat, comment_id)
    IN [author |-> info.author,
        text |-> info.text,
        score |-> info.score,
        replies |-> [k \in 1..Len(links.replies[comment_id]) |->
                        NodeOf(flat, links, links.replies[comment_id][k])],
        reply_count |-> 0]

\* update_counts (lines 627-630)
update_counts_RootOnly(comment) ==
    [comment EXCEPT !.reply_count = Len(comment.replies)]

RECURSIVE update_counts(_)
update_counts(comment) ==
    [comment EXCEPT !.reply_count = Len(comment.replies),
                    !.replies = [k \in 1..Len(comment.replies) |->
                                    update_counts(comment.replies[k])]]

_build_comment_tree(flat) ==
    LET keys == DictKeys(flat, Len(flat))
        links == PlaceAll(flat, keys, Len(keys))
    IN [k \in 1..Len(links.roots) |-> update_counts(NodeOf(flat, links, links.roots[k]))]

\* _count_comments_recursively (pullpush lines 500-507)
RECURSIVE _count_comments_recursively(_)
_count_comments_recursively(forest) ==
    IF forest = <<>> THEN 0
    ELSE 1 + (IF Head(forest).replies # <<>>
              THEN _count_comments_recursively(Head(forest).replies) ELSE 0)
           + _count_comments_recursively(Tail(forest))

\* _count_comments (reddit lines 778-785), the same code
_count_comments(forest) == _count_comments_recursively(forest)

\* _parse_comment (reddit lines 800-834)
RECURSIVE _parse_comment_CountAll(_)
_parse_comment_CountAll(comment_data) ==
    IF comment_data.kind = "more" THEN NoComment
    ELSE IF _is_bot_or_mod_comment_or_deleted(comment_data.author, comment_data.body)
    THEN NoComment
    ELSE LET children == IF comment_data.replies_is_dict THEN comment_data.children
                         ELSE <<>>
             parsed == [k \in 1..Len(children) |-> _parse_comment_CountAll(children[k])]
             replies == SelectSeq(parsed, LAMBDA c : c # NoComment)
         IN [author |-> comment_data.author,
             text |-> TextOf(comment_data.body),
             score |-> comment_data.score,
             replies |-> replies,
             reply_count |-> Len(children)]

RECURSIVE _parse_comment(_)
_parse_comment(comment_data) ==
    IF comment_data.kind = "more" THEN NoComment
    ELSE IF _is_bot_or_mod_comment_or_deleted(comment_data.author, comment_data.body)
    THEN NoComment
    ELSE LET children == IF comment_data.replies_is_dict THEN comment_data.children
                         ELSE <<>>
             parsed == [k \in 1..Len(children) |-> _parse_comment(children[k])]
             replies == SelectSeq(parsed, LAMBDA c : c # NoComment)
         IN [author |-> comment_data.author,
             text |-> TextOf(comment_data.body),
             score |-> comment_data.score,
             replies |-> replies,
             reply_count |-> Len(replies)]

\* _parse_comment of the file-backed crawler (stage2_crawl_posts.py lines
\* 612-646): the same steps with the filter of that module
RECURSIVE _parse_comment_file(_)
_parse_comment_file(comment_data) ==
    IF comment_data.kind = "more" THEN NoComment
    ELSE IF _is_bot_or_mod_comment(comment_data.author, comment_data.body)
    THEN NoComment
    ELSE LET children == IF comment_data.replies_is_dict THEN comment_data.children
                         ELSE <<>>
             parsed == [k \in 1..Len(children) |-> _parse_comment_file(children[k])]
             replies == SelectSeq(parsed, LAMBDA c : c # NoComment)
         IN [author |-> comment_data.author,
             text |-> TextOf(comment_data.body),
             score |-> comment_data.score,
             replies |-> replies,
             reply_count |-> Len(replies)]

\* fetch_post_json, stage2_crawl_posts.py lines 575-581
ParseNestedFile(comments_tree) ==
    SelectSeq([k \in 1..Len(comments_tree) |-> _parse_comment_file(comments_tree[k])],
              LAMBDA c : c # NoComment)

\* fetch_post_json, reddit lines 763-769: the top-level nodes that parse
ParseNested(comments_tree) ==
    SelectSeq([k \in 1..Len(comments_tree) |-> _parse_comment(comments_tree[k])],
              LAMBDA c : c # NoComment)

(***************************************************************************)
(* Inputs of the tree builders.                                            *)
(***************************************************************************)
T3 == [prefix |-> "t3_", id |-> NoCommentId]         \* "t3_<post id>"
T1(c) == [prefix |-> "t1_", id |-> c]                 \* "t1_<comment id>"
NoParent == [prefix |-> "", id |-> NoCommentId]      \* a missing "parent_id"

KeptBody == <<"nice", "dog">>
BotBody == <<"I", "am", "a", "Bot">>
DeletedBody == <<"[deleted]">>

\* A record of the comment search response, its "score" left open.
FlatShapes ==
    {[id |-> c, parent_id |-> p, author |-> "alice", body |-> KeptBody] :
        c \in CommentIds, p \in {T3} \cup {T1(x) : x \in CommentIds}}
    \cup {[id |-> NoCommentId, parent_id |-> T3, author |-> "alice", body |-> KeptBody],
          [id |-> 1, parent_id |-> NoParent, author |-> "alice", body |-> KeptBody]}
    \cup {[id |-> c, parent_id |-> T3, author |-> "AutoModerator", body |-> KeptBody] :
        c \in CommentIds}
    \cup {[id |-> 1, parent_id |-> T3, author |-> "[deleted]", body |-> DeletedBody]}

\* The records of a response carry pairwise different scores (their rank).
FlatInputs ==
    {[k \in 1..Len(shapes) |->
        [id |-> shapes[k].id, parent_id |-> shapes[k].parent_id,
         author |-> shapes[k].author, body |-> shapes[k].body, score |-> k]] :
     shapes \in SeqsUpTo(FlatShapes, MaxFlatLen)}

NestedLeaves ==
    {[kind |-> "t1", author |-> a, body |-> b, score |-> 0,
      replies_is_dict |-> FALSE, children |-> <<>>] :
        <<a, b>> \in {<<"alice", KeptBody>>, <<"alice", <<>>>>, <<"alice", BotBody>>,
                      <<"[deleted]", KeptBody>>, <<"alice", DeletedBody>>}}
    \cup {[kind |-> "more", author |-> "", body |-> <<>>, score |-> 0,
           replies_is_dict |-> FALSE, children |-> <<>>]}

NestedNodes ==
    {[kind |-> "t1", author |-> a, body |-> KeptBody, score |-> 0,
      replies_is_dict |-> TRUE, children |-> ch] :
        a \in {"alice", "AutoModerator"}, ch \in SeqsUpTo(NestedLeaves, MaxChildren)}
    \cup {[kind |-> "more", author |-> "", body |-> <<>>, score |-> 0,
           replies_is_dict |-> FALSE, children |-> <<>>]}

NestedTops ==
    {[kind |-> "t1", author |-> "alice", body |-> KeptBody, score |-> 0,
      replies_is_dict |-> TRUE, children |-> <<x>>] : x \in NestedNodes}

NestedInputs ==
    {<<>>} \cup {<<x>> : x \in NestedNodes \cup NestedTops}
    \cup {<<x, y>> : x, y \in NestedNodes}

\* _fetch_all_comments_from_pullpush and the count of fetch_post_json
BuildFlat ==
    /\ tpc = "flat"
    /\ LET parsed == ParseFlat(flat_input)
           all_comments == _build_comment_tree(parsed)
       IN /\ flat_comments' = parsed
          /\ comments' = all_comments
          /\ num_comments_filtered' = _count_comments_recursively(all_comments)
    /\ tpc' = "built"
    /\ UNCHANGED <<tree_variant, flat_input, nested_input>>
    /\ UNCHANGED NotTree

\* the comment part of fetch_post_json of the reddit variant
BuildNested ==
    /\ tpc = "nested"
    /\ tree_variant = "reddit"
    /\ LET parsed == ParseNested(nested_input)
       IN /\ comments' = parsed
          /\ num_comments_filtered' = _count_comments(parsed)
    /\ tpc' = "built"
    /\ UNCHANGED <<tree_variant, flat_input, nested_input, flat_comments>>
    /\ UNCHANGED NotTree

\* the comment part of fetch_post_json of the file-backed crawler
\* (stage2_crawl_posts.py lines 575-590)
BuildNestedFile ==
    /\ tpc = "nested"
    /\ tree_variant = "file"
    /\ LET parsed == ParseNestedFile(nested_input)
       IN /\ comments' = parsed
          /\ num_comments_filtered' = _count_comments(parsed)
    /\ tpc' = "built"
    /\ UNCHANGED <<tree_variant, flat_input, nested_input, flat_comments>>
    /\ UNCHANGED NotTree

InitTree ==
    /\ \/ /\ tpc = "flat" /\ tree_variant = "pullpush"
          /\ flat_input \in FlatInputs /\ nested_input = <<>>
       \/ /\ tpc = "nested" /\ tree_variant \in {"reddit", "file"}
          /\ flat_input = <<>> /\ nested_input \in NestedInputs
    /\ flat_comments = <<>>
    /\ comments = <<>>
    /\ num_comments_filtered = 0

TreeOff ==
    /\ tpc = "off"
    /\ tree_variant = "pullpush"
    /\ flat_input = <<>>
    /\ nested_input = <<>>
    /\ flat_comments = <<>>
    /\ comments = <<>>
    /\ num_comments_filtered = 0

NextTree ==
    \/ BuildFlat
    \/ BuildNested
    \/ BuildNestedFile

(***************************************************************************)
(* Specifications.  Each one starts one component and leaves the others    *)
(* off.                                                                    *)
(***************************************************************************)
MultiOff ==
    /\ mpc = "off"
    /\ sampling_ratios = NormalizeRatios(DefaultRatios)
    /\ mc_max_posts = 1
    /\ mc_variant = "crawler"
    /\ sampling_counts = [t \in SourceTypes |-> 0]
    /\ sampling_configs = <<>>
    /\ src = 1
    /\ collected_urls_with_source = <<>>
    /\ seen_post_ids = {}
    /\ src_collected = <<>>
    /\ no_new_data_count = 0

\* the max_posts values at which int() of the double product falls short
FloatProductPosts == {p[1] : p \in FloatProductShort}

\* A RedditCrawler constructed with one of `configs` and one of `posts_values`.
InitMultiWith(configs, posts_values) ==
    /\ mpc = "init"
    /\ \E cfg \in configs : sampling_ratios = NormalizeRatios(cfg)
    /\ mc_max_posts \in posts_values
    /\ sampling_counts = [t \in DOMAIN sampling_ratios |-> 0]
    /\ sampling_configs = <<>>
    /\ src = 1
    /\ collected_urls_with_source = <<>>
    /\ seen_post_ids = {}
    /\ src_collected = <<>>
    /\ no_new_data_count = 0

\* Ratios that __init__ accepts as they are (0.505 + 0.5 + 0.004 = 1.009),
\* with a total above one.
OverUnitRatios == [t \in SourceTypes |->
                     IF t = "best" THEN 505 ELSE IF t = "new" THEN 500 ELSE 4]

\* The quota computation on its own, over a wide set of configurations.
InitQuota ==
    /\ \/ InitMultiWith(QuotaInputs, (1..MaxQuotaPosts) \cup FloatProductPosts)
       \/ InitMultiWith({OverUnitRatios}, {200})
    /\ mc_variant = "crawler"
    /\ CollectorOff /\ FetchOff /\ AtomicOff /\ TreeOff /\ SinkOff

NextQuota == PlanQuotas

SpecQuota == InitQuota /\ [][NextQuota]_vars

\* Multi-source collection, over a few configurations.
MultiConfigs ==
    {DefaultRatios,
     [t \in SourceTypes |-> IF t = "top_year" THEN 330 ELSE 335],
     [t \in {"best", "new"} |-> 500],
     [t \in {"new"} |-> 1000]}

InitMulti ==
    /\ InitMultiWith(MultiConfigs, 1..(MaxPosts + 1))
    /\ mc_variant \in {"crawler", "v1"}
    /\ CollectorOff /\ FetchOff /\ AtomicOff /\ TreeOff /\ SinkOff

NextMulti ==
    \/ PlanQuotas
    \/ \E links \in LinkLists : ScanLinks(links)
    \/ ScanRaises
    \/ SourceAborts
    \/ SourceRaises

SpecMulti == InitMulti /\ [][NextMulti]_vars

InitCollectorOnly ==
    /\ InitCollector
    /\ MultiOff /\ FetchOff /\ AtomicOff /\ TreeOff /\ SinkOff

SpecCollector == InitCollectorOnly /\ [][NextCollector]_vars

\* The frontier collectors together: the paginated URLCollector (both source
\* files) and the multi-source RedditCrawler.
InitFrontier == InitCollectorOnly \/ InitMulti

NextFrontier == NextCollector \/ NextMulti

SpecFrontier == InitFrontier /\ [][NextFrontier]_vars

InitFetchOnly ==
    /\ InitFetch
    /\ CollectorOff /\ MultiOff /\ AtomicOff /\ TreeOff /\ SinkOff

SpecFetch == InitFetchOnly /\ [][NextFetch]_vars

InitAtomicOnly ==
    /\ InitAtomic
    /\ CollectorOff /\ MultiOff /\ FetchOff /\ TreeOff /\ SinkOff

SpecAtomic == InitAtomicOnly /\ [][NextAtomic]_vars

InitDocOnly ==
    /\ InitDoc
    /\ CollectorOff /\ MultiOff /\ FetchOff /\ AtomicOff /\ TreeOff /\ StoreOff /\ PairOff /\ CursorOff
    /\ CrawlOff /\ CoverOff

InitStoreOnly ==
    /\ InitStore
    /\ CollectorOff /\ MultiOff /\ FetchOff /\ AtomicOff /\ TreeOff /\ DocOff /\ PairOff /\ CursorOff
    /\ CrawlOff /\ CoverOff

InitPairOnly ==
    /\ InitPair
    /\ CollectorOff /\ MultiOff /\ FetchOff /\ AtomicOff /\ TreeOff /\ DocOff /\ StoreOff /\ CursorOff
    /\ CrawlOff /\ CoverOff

InitCursorOnly ==
    /\ InitCursor
    /\ CollectorOff /\ MultiOff /\ FetchOff /\ AtomicOff /\ TreeOff /\ DocOff /\ StoreOff
    /\ PairOff /\ CrawlOff /\ CoverOff

InitCrawlOnly ==
    /\ InitCrawl
    /\ CollectorOff /\ MultiOff /\ FetchOff /\ AtomicOff /\ TreeOff /\ DocOff /\ StoreOff
    /\ PairOff /\ CursorOff /\ CoverOff

InitCoverOnly ==
    /\ InitCover
    /\ CollectorOff /\ MultiOff /\ FetchOff /\ AtomicOff /\ TreeOff /\ DocOff /\ StoreOff
    /\ PairOff /\ CursorOff /\ CrawlOff

\* the coverage check of the merge tool
SpecCover == InitCoverOnly /\ [][NextCover]_vars

\* the single-process crawlers: collection, fetch loop, state file
SpecCrawl == InitCrawlOnly /\ [][NextCrawl]_vars

\* the index-cursor fetch loop
SpecCursor == InitCursorOnly /\ [][NextCursor]_vars

\* two instances over disjoint ranges and one posts table
SpecPair == InitPairOnly /\ [][NextPair]_vars

\* the posts table under writes and repeated writes
SpecStore == InitStoreOnly /\ [][NextStore]_vars

\* the output JSON file under flushes and crashes
SpecDocStore == InitDocOnly /\ [][NextDoc]_vars

InitTreeOnly ==
    /\ InitTree
    /\ CollectorOff /\ MultiOff /\ FetchOff /\ AtomicOff /\ SinkOff

SpecTree == InitTreeOnly /\ [][NextTree]_vars


(***************************************************************************)
(* Properties of the frontier collectors.                                  *)
(***************************************************************************)
\* The URLCollector is inside run(): collecting, or returned from it.
InCollection ==
    cpc = "loop" \/ (cpc = "returned" /\ exit_reason \notin {"complete", "single"})

\* C1: neither the collected URL list of the URLCollector (in memory or
\* persisted), nor the multi-source frontier together with the list of the
\* source being collected, ever holds two entries with the same item ID.
C1_DedupInvariant ==
    /\ NoDuplicates(ItemIds(collected_urls))
    /\ NoDuplicates(ItemIds(state_file.collected_urls))
    /\ NoDuplicates(ItemIds(collected_urls_with_source \o src_collected))

\* A resumed run that holds an entry and has just skipped a page made only of
\* duplicate (or malformed) records.
C1_Witness ==
    /\ cpc = "loop" /\ runs = 2 /\ state_file.exists
    /\ Len(collected_urls) >= 1
    /\ consecutive_zero_new >= 1

\* C2 (as claimed): the collected list, in memory, returned and persisted,
\* never holds more than max_posts entries, whatever max_posts a resumed run
\* is given.
C2_AtMostMaxPosts ==
    /\ cpc \in {"loop", "returned"} => Len(collected_urls) <= max_posts
    /\ cpc = "returned" => Len(url_list) <= max_posts
    /\ state_file.exists => Len(state_file.collected_urls) <= state_file.max_posts

\* C3: during collection, from the moment the state is rebuilt from the
\* checkpoint, the seen-ID set contains the item ID of every collected entry.
C3_SeenCoversCollected ==
    InCollection => Range(ItemIds(collected_urls)) \subseteq scanned_post_ids

\* A run just rebuilt from a checkpoint that holds an entry.
C3_Witness ==
    /\ cpc = "loop" /\ runs = 2 /\ ~requested
    /\ state_file.exists
    /\ Len(collected_urls) >= 1

\* C4: for ratios accepted without renormalisation the quotas sum to exactly
\* max_posts, and max_posts = 100 with 0.65 / 0.25 / 0.10 gives 65 / 25 / 10.
C4_QuotaPartitionExact ==
    (mpc # "init" /\ \A t \in DOMAIN sampling_ratios : sampling_ratios[t].den = RatioUnit)
    => /\ SumOver(sampling_counts, DOMAIN sampling_counts) = mc_max_posts
       /\ (mc_max_posts = 100 /\ sampling_ratios = NormalizeRatios(DefaultRatios))
          => (/\ sampling_counts["new"] = 65
              /\ sampling_counts["top_year"] = 25
              /\ sampling_counts["best"] = 10)

\* The quotas of the scenario have been computed.
C4_Witness ==
    /\ mpc # "init"
    /\ mc_max_posts = 100
    /\ sampling_ratios = NormalizeRatios(DefaultRatios)
    /\ sampling_counts["new"] = 65

\* C10 (as claimed): a run that resumes from a checkpoint starts with exactly
\* the collected list, seen-ID set and before cursor that were in memory when
\* that checkpoint was written.
C10_CheckpointRoundTrip ==
    (cpc = "loop" /\ ~requested /\ ckpt_mem.written)
    => /\ collected_urls = ckpt_mem.collected_urls
       /\ scanned_post_ids = ckpt_mem.ids
       /\ before = ckpt_mem.before

(***************************************************************************)
(* Properties of the store-backed fetch loop.                              *)
(***************************************************************************)
\* the number of failed attempts at the end of the attempts of this run
RECURSIVE TrailingFailures(_)
TrailingFailures(atts) ==
    IF atts = <<>> \/ atts[Len(atts)].ok THEN 0
    ELSE 1 + TrailingFailures(SubSeq(atts, 1, Len(atts) - 1))

\* the posts table holds the same row (or none) for the post of `index` as
\* it did when this run started
RowUntouched(index) ==
    LET post_id == _extract_post_id(FrontierUrl(index))
    IN {r \in posts : r.post_id = post_id} = {r \in posts_at_start : r.post_id = post_id}

\* C5: consecutive_failures counts the failed attempts since the last
\* success (each failure adds one, a success resets it); no attempt starts
\* with FailureLimit consecutive failures on the count; once the fifth
\* consecutive failure has happened the run is over, and no index after the
\* one that failed fifth has been attempted or written.
C5_CircuitBreaker ==
    fpc \in {"loop", "done"}
    => /\ consecutive_failures = TrailingFailures(attempts)
       /\ fpc = "loop" => consecutive_failures < FailureLimit
       /\ TrailingFailures(attempts) >= FailureLimit
          => /\ fpc = "done"
             /\ TrailingFailures(attempts) = FailureLimit
             /\ \A k \in (Len(attempts) + 1)..Len(pending_indexes) :
                   /\ \A a \in 1..Len(attempts) : attempts[a].index # pending_indexes[k]
                   /\ RowUntouched(pending_indexes[k])

\* The breaker fired after a success had reset the count, and indexes remain.
C5_Witness ==
    /\ fpc = "done"
    /\ consecutive_failures = FailureLimit
    /\ Len(attempts) < Len(pending_indexes)
    /\ \E a \in 2..Len(attempts) : attempts[a].ok /\ ~attempts[1].ok

\* C6 (as claimed): a run that follows a run which ran to completion (it
\* processed all its pending indexes and every fetch succeeded) performs no
\* fetch and leaves the posts table as it found it.
C6_ResumptionIdempotent ==
    (/\ fpc \in {"loop", "done"}
     /\ fetch_runs >= 2
     /\ prev_run.completed_normally
     /\ prev_run.failed_fetches = 0)
    => /\ attempts = <<>>
       /\ fpc = "done"
       /\ posts = posts_at_start

(***************************************************************************)
(* Properties of _atomic_write_json.                                       *)
(***************************************************************************)
\* C7: whatever step the write has reached, crashed at or raised at, the
\* target holds its complete previous content or the complete new document;
\* after a raise it holds the previous content.
C7_AtomicWrite ==
    wpc # "off"
    => /\ fs[TargetPath] \in {w_old, Document(w_data)}
       /\ fs[TargetPath] \in {NoFile} \cup {Document(d) : d \in 1..MaxData}
       /\ wpc = "raised" => fs[TargetPath] = w_old

\* A crash with a partly written temp file next to an existing target.
C7_Witness ==
    /\ wpc = "crashed"
    /\ w_old # NoFile
    /\ w_data # w_old[1].of
    /\ Len(fs[temp_file(TargetPath)]) = 1

(***************************************************************************)
(* Properties of the comment trees.                                        *)
(***************************************************************************)
\* the positions of the nodes of a forest: <<k>> is root k, <<k, j>> its
\* j-th reply, ...
RECURSIVE NodePaths(_)
NodePaths(forest) ==
    UNION {{<<k>>} \cup {<<k>> \o p : p \in NodePaths(forest[k].replies)} :
              k \in 1..Len(forest)}

RECURSIVE NodeAt(_, _)
NodeAt(forest, path) ==
    IF Len(path) = 1 THEN forest[path[1]]
    ELSE NodeAt(forest[path[1]].replies, Tail(path))

\* C8: in the forest a builder returned, every node's reply_count is the
\* length of its replies list, and num_comments_filtered (the result of the
\* recursive counter) is the number of nodes of the forest.
C8_CountsConsistent ==
    tpc = "built"
    => /\ \A p \in NodePaths(comments) :
             NodeAt(comments, p).reply_count = Len(NodeAt(comments, p).replies)
       /\ num_comments_filtered = Cardinality(NodePaths(comments))

\* A flat response built into a chain of three nodes.
C8_Witness ==
    /\ tpc = "built"
    /\ flat_input # <<>>
    /\ \E p \in NodePaths(comments) : Len(p) = 3
    /\ num_comments_filtered = 3

\* the kept records of a flat response
Kept(k) == flat_comments[k]

KeptIndexes == 1..Len(flat_comments)

\* the kept record a kept record replies to, if there is one
ParentKept(k) ==
    {j \in KeptIndexes : /\ Kept(k).parent_id.prefix = "t1_"
                           /\ Kept(j).comment_id = Kept(k).parent_id.id}

\* the positions at which the record with this score appears in the forest
Occurrences(score) == {p \in NodePaths(comments) : NodeAt(comments, p).score = score}

\* the record appears exactly once: under its kept parent, else as a root
PlacedOnce(k) ==
    /\ Cardinality(Occurrences(Kept(k).score)) = 1
    /\ \A p \in Occurrences(Kept(k).score) :
          IF ParentKept(k) = {} THEN Len(p) = 1
          ELSE /\ Len(p) >= 2
               /\ \E j \in ParentKept(k) :
                     NodeAt(comments, SubSeq(p, 1, Len(p) - 1)).score = Kept(j).score

\* kept records have non-empty, pairwise different IDs
DistinctIds ==
    \A k \in KeptIndexes :
        /\ Kept(k).comment_id # NoCommentId
        /\ \A j \in KeptIndexes : j # k => Kept(j).comment_id # Kept(k).comment_id

\* every parent reference is the post or another comment
ParentsAreItemOrComment ==
    \A k \in KeptIndexes :
        \/ Kept(k).parent_id.prefix = "t3_"
        \/ Kept(k).parent_id.prefix = "t1_" /\ Kept(k).parent_id.id # Kept(k).comment_id

\* following parent references from record k ends at the post or at a
\* comment that is not among the kept records
RECURSIVE ChainEnds(_, _)
ChainEnds(k, fuel) ==
    \/ ParentKept(k) = {}
    \/ fuel > 0 /\ \A j \in ParentKept(k) : ChainEnds(j, fuel - 1)

NoCycles == \A k \in KeptIndexes : ChainEnds(k, Len(flat_comments))

StartedComplete ==
    /\ cpc = "returned"
    /\ ~HasCommentsMarker(subreddit_url)
    /\ file_at_start.exists
    /\ Len(file_at_start.collected_urls) >= max_posts

C12_SingleItem ==
    (cpc = "returned" /\ HasCommentsMarker(subreddit_url))
    => /\ ~requested
       /\ Len(url_list) = 1
       /\ url_list[1].url = subreddit_url
       /\ "source" \in DOMAIN url_list[1]
       /\ url_list[1].source = "single_post"

\* the loop of collect_post_urls can issue a listing request
CanRequest ==
    ENABLED (RequestHttpError \/ RequestException \/ RequestEmpty
             \/ \E page \in Pages : RequestPage(page))

\* the run left the loop because of failures, an interrupt or a kill
Abandoned == cpc = "returned" /\ exit_reason \in {"errors", "interrupt", "killed"}

\* the stop conditions as claimed: target reached, an empty page, or three
\* processed pages in a row that added no entry to the frontier
StopAsClaimed ==
    \/ Len(collected_urls) >= max_posts
    \/ exit_reason = "exhausted"
    \/ page_log.zero_pages >= ZeroNewLimit

\* the stop conditions of the code: in src/v3 a page that met a deleted item
\* for the first time does not count as a page without new items
StopAsCoded ==
    \/ Len(collected_urls) >= max_posts
    \/ exit_reason = "exhausted"
    \/ (IF variant = "v3" THEN page_log.dup_pages ELSE page_log.zero_pages) >= ZeroNewLimit

PersistedIsMemory ==
    /\ state_file.collected_urls = collected_urls
    /\ state_file.ids = scanned_post_ids
    /\ state_file.before_timestamp = before

OkAttempts == SelectSeq(attempts, LAMBDA a : a.ok)

\* the posts table holds the item of `index`, written by this run
StoredByThisRun(index) ==
    \E r \in posts : /\ r.post_id = _extract_post_id(FrontierUrl(index))
                     /\ r.index_in_list = index
                     /\ r.crawled_at = fetch_runs

PersistedAtStart(index) ==
    \E r \in posts_at_start : r.subreddit = SubredditName /\ r.index_in_list = index

PendingFromStore(table, s, e) ==
    SortedSeq({index \in s..e :
                  \A r \in table : ~(r.subreddit = SubredditName /\ r.index_in_list = index)})

\* C19: whatever the progress file held when the run started (nothing,
\* garbage, an older or a newer record), the pending list is the one the posts
\* table and the range determine, and the indexes attempted are its first
\* entries, in its order.
C19_ProgressFileIsHint ==
    fpc \in {"loop", "done"}
    => LET pending == PendingFromStore(posts_at_start, start_index, end_index)
       IN /\ pending_indexes = pending
          /\ [a \in 1..Len(attempts) |-> attempts[a].index] = Prefix(pending, Len(attempts))

\* A resumed run that found a progress file claiming the whole range stored
\* (or an unreadable one) and has attempted an index all the same.
C19_Witness ==
    /\ fpc = "loop" /\ fetch_runs = 2
    /\ progress_file \in {CorruptProgressFile,
                           [exists |-> TRUE, current_index |-> end_index,
                            total_crawled |-> end_index - start_index + 1]}
    /\ Len(attempts) >= 1
    /\ posts_at_start # {}

\* C20: the attempts of a run are made one after the other on strictly
\* ascending indexes, none skipped and none repeated: the a-th attempt is on
\* the a-th pending index, and the attempt the loop makes next is the one
\* after the last finished attempt.
C20_AscendingOrder ==
    fpc \in {"loop", "done"}
    => /\ \A a, b \in 1..Len(attempts) :
             a < b => attempts[a].index < attempts[b].index
       /\ \A a \in 1..Len(attempts) : attempts[a].index = pending_indexes[a]
       /\ fpc = "loop" => loop_i = Len(attempts) /\ loop_i < Len(pending_indexes)

\* A resumed run that has made two attempts on indexes that are not
\* neighbours in the frontier.
C20_Witness ==
    /\ fetch_runs = 2
    /\ Len(attempts) >= 2
    /\ attempts[2].index > attempts[1].index + 1

\* the range asked for, cut to the frontier
AskedStart == IF range_args[1] = None \/ range_args[1] < 0 THEN 0 ELSE range_args[1]

AskedEnd ==
    IF range_args[2] = None \/ range_args[2] > TotalCount - 1
    THEN TotalCount - 1 ELSE range_args[2]

\* no complete, non-empty frontier file, or no index in the range asked for
BadConfiguration == urls_file # "complete" \/ AskedStart > AskedEnd

\* C21: a run ends in the abort exactly when the frontier file is not a
\* complete non-empty list or the range is empty after the clamping; under
\* such a configuration no fetch is ever attempted, the posts table stays
\* empty and no progress file is written; and once load_url_list has
\* succeeded, 0 <= start_index <= end_index <= total - 1 and every pending
\* index lies in that range.
C21_AbortBeforeWork ==
    /\ fpc \in {"loop", "done", "aborted"} => (fpc = "aborted" <=> BadConfiguration)
    /\ BadConfiguration
       => /\ fpc \in {"idle", "aborted"}
          /\ attempts = <<>> /\ all_posts_data = <<>> /\ pending_indexes = <<>>
          /\ posts = {}
          /\ progress_file = NoProgressFile
    /\ fpc \in {"loop", "done"}
       => /\ 0 <= start_index /\ start_index <= end_index /\ end_index <= TotalCount - 1
          /\ start_index = AskedStart /\ end_index = AskedEnd
          /\ \A k \in 1..Len(pending_indexes) :
                pending_indexes[k] >= start_index /\ pending_indexes[k] <= end_index

\* A second run over a complete frontier aborted because the range asked
\* for (no start, end before the first entry) is empty after the clamping,
\* which has set start_index to 0.
C21_Witness ==
    /\ fpc = "aborted" /\ fetch_runs = 2
    /\ urls_file = "complete"
    /\ range_args = <<None, 0 - 1>>
    /\ start_index = 0 /\ end_index = 0 - 1

\* a run over a range that reached over both ends of the frontier
C21_ClampedRun ==
    /\ fpc = "done" /\ range_args = <<TotalCount - 2, TotalCount + 1>>
    /\ Len(attempts) = 2

\* C22: after a crash during a flush the output file holds the complete
\* document it held before the flush or the complete document of the
\* concatenated list.
C22_DocStoreCrashAtomic ==
    dpc = "crashed"
    => \/ output_file \in {d_old, OutputOf(d_all)}
       \/ ~d_old.exists /\ output_file.chunks = <<>>    \* created, nothing written

\* the first flush after such a crash finds nothing to read: the items the
\* file held before the crash are not in the file it writes
C22_ItemsKeptAfterCrash ==
    (dpc = "idle" /\ IsDocument(d_old)) => IsDocument(output_file)

\* the posts of a batch that carry the post ID `id`
WithId(batch, id) == SelectSeq(batch, LAMBDA post : post.post_id = id)

\* C23: after any sequence of calls the table holds at most one row per post
\* ID.  A call with a post whose ID has a row leaves that row as it was in
\* the insert-or-ignore variant; in the insert-or-replace variant the row
\* becomes the one of the last post of the batch with that ID, written at the
\* time of the call.  A post whose ID has no row gets one (the first of the
\* batch in the one variant, the last in the other).
C23_Upsert ==
    spc \in {"wrote", "retried"}
    => /\ \A r, q \in s_table : r.post_id = q.post_id => r = q
       /\ {r.post_id : r \in s_table} =
             {r.post_id : r \in s_prev} \cup {s_batch[k].post_id : k \in 1..Len(s_batch)}
       /\ \A r \in s_prev :
             IF s_mode = "ignore" \/ WithId(s_batch, r.post_id) = <<>>
             THEN r \in s_table
             ELSE LET same == WithId(s_batch, r.post_id)
                  IN ReplacedRow(same[Len(same)], s_clock) \in s_table
       /\ \A k \in 1..Len(s_batch) :
             (\A r \in s_prev : r.post_id # s_batch[k].post_id)
             => LET same == WithId(s_batch, s_batch[k].post_id)
                IN IF s_mode = "ignore"
                   THEN IgnoredRow(same[1], s_clock) \in s_table
                   ELSE ReplacedRow(same[Len(same)], s_clock) \in s_table

\* A call of either variant whose batch brings other crawled fields for a
\* post ID that already has a row.
C23_Witness ==
    /\ spc = "wrote"
    /\ \E r \in s_prev : \E k \in 1..Len(s_batch) :
          /\ s_batch[k].post_id = r.post_id
          /\ s_batch[k].content # r.content
          /\ Len(s_batch) = 2 /\ s_batch[1].post_id # s_batch[2].post_id

\* a row without the time of the write
Crawled(r) == [r EXCEPT !.crawled_at = 0]

\* C24: the same call made a second time leaves the table with the same
\* number of rows, the same post IDs and, the time of the write aside, the
\* same rows.
C24_RetrySafe ==
    spc = "retried"
    => /\ Cardinality(s_table) = Cardinality(s_prev)
       /\ {Crawled(r) : r \in s_table} = {Crawled(r) : r \in s_prev}
       /\ s_mode = "ignore" => s_table = s_prev

\* The repeated call of a batch that holds one post ID twice, with
\* different crawled fields, over a table that already had a row of that ID.
C24_Witness ==
    /\ spc = "retried"
    /\ Len(s_batch) = 2
    /\ s_batch[1].post_id = s_batch[2].post_id
    /\ s_batch[1].content # s_batch[2].content
    /\ s_clock = MaxWrites

\* the indexes of the range of instance k
IndexesOf(k) == PairRange(k)[1]..PairRange(k)[2]

C26_CheckpointKept ==
    xpc = "done"
    => /\ x_removed => (x_exit = "exhausted" /\ x_attempted = 1..x_total)
       /\ (x_exit # "exhausted" /\ x_crawled > 0) => x_progress.exists

\* the same with the circuit breaker on the last item taken for the end of
\* the loop, as line 725 does
C26_CheckpointKeptAsCoded ==
    xpc = "done"
    => /\ x_removed => (x_exit \in {"exhausted", "break"} /\ x_index = x_total
                        /\ x_attempted = 1..x_total)
       /\ (~x_completed /\ x_crawled > 0) => x_progress.exists

(***************************************************************************)
(* Properties of the nested comment parser and of the comment filter.      *)
(***************************************************************************)
\* the filter the crawler that builds the forest applies to a comment
FilterHolds(author, body) ==
    IF tree_variant = "file" THEN _is_bot_or_mod_comment(author, body)
    ELSE _is_bot_or_mod_comment_or_deleted(author, body)

\* a node of the comment listing for which the parser returns None
Dropped(node) == node.kind = "more" \/ FilterHolds(node.author, node.body)

\* the positions of the children of a node that are not dropped
Surviving(children) == {k \in 1..Len(children) : ~Dropped(children[k])}

\* the k-th smallest member of a set of positions
RECURSIVE Nth(_, _)
Nth(positions, k) ==
    LET least == CHOOSE x \in positions : \A y \in positions : x <= y
    IN IF k = 1 THEN least ELSE Nth(positions \ {least}, k - 1)

\* `forest` holds one node for each surviving node of `children`, in order,
\* with that node's author and text, a reply_count that is the number of its
\* surviving direct children, and replies that mirror those children
RECURSIVE Mirrors(_, _)
Mirrors(forest, children) ==
    /\ Len(forest) = Cardinality(Surviving(children))
    /\ \A k \in 1..Len(forest) :
          LET node == children[Nth(Surviving(children), k)]
          IN /\ forest[k].author = node.author
             /\ forest[k].text = TextOf(node.body)
             /\ forest[k].reply_count = Cardinality(Surviving(node.children))
             /\ Mirrors(forest[k].replies, node.children)

\* C27: the nested parser returns None for a node exactly when its kind is
\* "more" or the filter holds for it; every other node is returned with its
\* children parsed the same way and a reply_count equal to the number of its
\* surviving direct children, so the subtree of a dropped node is absent
\* from the output.
C27_NestedParse ==
    (tpc = "built" /\ tree_variant \in {"reddit", "file"})
    => Mirrors(comments, nested_input)

\* A kept top-level comment whose only reply is filtered and has a kept
\* reply of its own: the output is the top-level comment without replies.
C27_Witness ==
    /\ tpc = "built" /\ tree_variant \in {"reddit", "file"}
    /\ Len(nested_input) = 1
    /\ ~Dropped(nested_input[1])
    /\ Len(nested_input[1].children) = 1
    /\ nested_input[1].children[1].author = "AutoModerator"
    /\ \E k \in 1..Len(nested_input[1].children[1].children) :
          ~Dropped(nested_input[1].children[1].children[k])
    /\ Len(comments) = 1
    /\ comments[1].reply_count = 0 /\ comments[1].replies = <<>>

\* the filter as the claim states it
should_filter(author, body) ==
    \/ author = "AutoModerator"
    \/ author = "[deleted]"
    \/ Contains(Lower(body), <<"i", "am", "a", "bot">>)
    \/ Contains(Lower(body), <<"moderator">>)
    \/ Contains(Lower(body), <<"[deleted]">>)

\* the comments the filter of the crawler that builds is called with first:
\* the records of the flat response, the top-level nodes of the listing
InputComments ==
    {[author |-> flat_input[k].author, body |-> flat_input[k].body] :
        k \in 1..Len(flat_input)}
    \cup {[author |-> nested_input[k].author, body |-> nested_input[k].body] :
             k \in {j \in 1..Len(nested_input) : nested_input[j].kind # "more"}}

\* C28: the comment filter of the crawler is true exactly when the author is
\* AutoModerator or the deleted sentinel, or the lowercased body contains a
\* bot / moderator phrase or the deleted sentinel; and no node of the forest
\* a builder returned has such an author or text.
C28_FilterExact ==
    tpc = "built"
    => /\ \A c \in InputComments :
             FilterHolds(c.author, c.body) <=> should_filter(c.author, c.body)
       /\ \A p \in NodePaths(comments) :
             ~should_filter(NodeAt(comments, p).author, NodeAt(comments, p).text)

\* C28, for the crawlers whose filter is _is_bot_or_mod_comment_or_deleted
\* (the search-API and the nested JSON crawler of the store-backed variant).
C28_FilterExactWithDeleted ==
    (tpc = "built" /\ tree_variant # "file") => C28_FilterExact

(***************************************************************************)
(* Properties of the rows of the posts table under the fetch loop.         *)
(***************************************************************************)
\* the row is still in the table with the crawled fields it had (the time
\* of the write aside), and with the analysis result it had if one was
\* attached
RowKept(r, table) ==
    \E q \in table :
        /\ q.post_id = r.post_id
        /\ q.index_in_list = r.index_in_list
        /\ q.subreddit = r.subreddit
        /\ q.content = r.content
        /\ r.llm_analyze_result # NoResult => q.llm_analyze_result = r.llm_analyze_result

\* C29: a row of the posts table is created once per post ID; no step of a
\* fetch loop, in the run that stored it or in a later run, changes the
\* crawled fields of a row that is in the table or clears an analysis result
\* attached to it.
C29_RowCreatedOnce == [][\A r \in posts : RowKept(r, posts')]_vars

\* C29, the part that holds: a row whose subreddit column is the name the
\* crawler derives from its URL is not written again.
C29_RowOfOwnNameKept ==
    [][\A r \in posts : r.subreddit = SubredditName => RowKept(r, posts')]_vars

(***************************************************************************)
(* Properties of the multi-source collection.                              *)
(***************************************************************************)
\* a step of the collection from one source keeps the frontier gathered so
\* far, ends the source only to go on with the next one, leaves in the
\* frontier every entry the ended source had gathered, and ends the
\* collection only after the last source
SourceStepContained ==
    /\ Len(collected_urls_with_source) <= Len(collected_urls_with_source')
    /\ \A k \in 1..Len(collected_urls_with_source) :
          collected_urls_with_source'[k] = collected_urls_with_source[k]
    /\ src' # src
       => /\ src' = src + 1
          /\ \A k \in 1..Len(src_collected) :
                \E j \in 1..Len(collected_urls_with_source') :
                   collected_urls_with_source'[j] = src_collected[k]
    /\ mpc' = "done" => src' = Len(sampling_configs) + 1

\* C30: in the multi-source collection a source that fails or stalls ends
\* only its own collection: the next source is collected, and the entries of
\* earlier sources and those the failing source had gathered stay in the
\* frontier that is returned.
C30_SourceFailureContained == [][mpc = "scroll" => SourceStepContained]_vars

\* C30 for RedditCrawler of src/crawler.py, whose _collect_from_single_source
\* catches every exception and returns what it has.
C30_SourceFailureContainedCrawler ==
    [][(mpc = "scroll" /\ mc_variant = "crawler") => SourceStepContained]_vars

(***************************************************************************)
(* Properties of the sampling plan.                                        *)
(***************************************************************************)
\* the ratios were accepted by __init__ as they are
AcceptedAsGiven == \A t \in DOMAIN sampling_ratios : sampling_ratios[t].den = RatioUnit

\* the sum of the quotas of the sources that are visited
PlannedTotal ==
    SumOver([i \in 1..Len(sampling_configs) |-> sampling_configs[i].count],
            1..Len(sampling_configs))

\* C31: for ratios accepted without renormalisation, every quota is
\* non-negative and the frontier of the multi-source collection holds no more
\* than max_posts entries (the sources that are visited are asked for no
\* more than max_posts entries in total).
C31_QuotasBounded ==
    (mpc # "init" /\ AcceptedAsGiven)
    => /\ \A t \in DOMAIN sampling_counts : sampling_counts[t] >= 0
       /\ PlannedTotal <= mc_max_posts
       /\ Len(collected_urls_with_source) <= mc_max_posts

\* C31, what the code keeps: every source is asked for no more than its
\* quota, so the frontier holds no more entries than the visited sources'
\* quotas add up to.
C31_FrontierWithinPlan ==
    mpc # "init" => Len(collected_urls_with_source) + Len(src_collected) <= PlannedTotal

CrawlTypeOK ==
    /\ rpc \in {"idle", "loop", "done"}
    /\ r_index \in 1..(BatchSize + 2)
    /\ r_failures \in 0..CrawlFailureLimit

\* C32 (src/crawler.py): the checkpoint never runs ahead of the persisted
\* data: whenever the state file holds the index k, every item at an index
\* below k that a run fetched successfully is already in the output file
\* (the item at k itself is fetched again by a resumed run).
C32_CheckpointBehindStore ==
    (r_variant = "crawler" /\ r_state.exists)
        => \A i \in r_fetched : i < r_state.current_post_index => i \in Range(r_output)

\* C32 (src/stage2_crawl_posts.py): the progress file is written by
\* save_data(current_index) after the output file: every fetched item at an
\* index below the stored one is in the output file.
C32_CheckpointBehindStoreCursor ==
    x_progress.exists
        => \A i \in x_fetched : i < x_progress.current_index => i \in Range(x_output)

\* C32 (src/v2/crawler.py): save_data(current_index) there updates the index
\* after the output file as well
C32_CheckpointBehindStoreV2 ==
    (r_variant = "v2" /\ r_state.exists)
        => \A i \in r_fetched : i < r_state.current_post_index => i \in Range(r_output)

\* C33: across the runs of PostCrawler.crawl_posts over one frontier, no item
\* appears more than once in the document list of the output file.
C33_NoDuplicateDocuments == NoDuplicates(x_output)

\* C33: what one run adds to the output file has no duplicates and holds
\* only items from its resume index on
C33_OneRunAddsOnce ==
    [][/\ NoDuplicates(SubSeq(x_output', Len(x_output) + 1, Len(x_output')))
       /\ \A k \in (Len(x_output) + 1)..Len(x_output') : x_output'[k] >= x_resumed']_vars

\* C34: the resume cursor never moves past an index that has not been
\* persisted: every item below the index of the progress file is in the
\* output file, so that a failed item is attempted again by a later run.
C34_CursorBehindPersisted ==
    x_progress.exists
        => \A i \in 1..(x_progress.current_index - 1) : i \in Range(x_output)

\* C34: the item a run stopped on (failure limit, interrupt, exception) is
\* where the next run starts, or after where it starts
C34_StoppedItemRetried ==
    (xpc = "done" /\ x_exit \in {"break", "interrupt", "exception"} /\ ~x_completed)
        => load_crawl_progress_cursor(x_progress).current_index <= x_index

\* a run of src/v2/crawler.py was started on the state file left by a run
\* that was interrupted in its fetch phase, past the first item
StartedAfterInterruptedFetch ==
    /\ r_variant = "v2"
    /\ r_runs >= 2
    /\ r_started.after = "interrupt"
    /\ r_started.state.exists
    /\ r_started.state.current_post_index > 1

\* the run fetches the stored URL list from the stored index on
ResumedStored ==
    /\ r_started.reuse
    /\ r_started.existing_urls = r_started.state.urls
    /\ r_started.current_index = r_started.state.current_post_index

\* C35: when collection ended with fewer than max_posts URLs and the fetch
\* phase was interrupted, the next run resumes with the same URL list and
\* the saved fetch index.
C35_ShortFrontierResumed ==
    (StartedAfterInterruptedFetch /\ r_started.state.urls < r_max_posts) => ResumedStored

\* C35: the same for a frontier of max_posts URLs
C35_FullFrontierResumed ==
    (StartedAfterInterruptedFetch /\ r_started.state.urls >= r_max_posts) => ResumedStored

\* C35: a full frontier was resumed past its first item
C35_FullWitness ==
    /\ StartedAfterInterruptedFetch
    /\ r_started.state.urls >= r_max_posts
    /\ rpc = "loop"

\* A run of the given source file left its fetch loop with a non-empty
\* buffer: the buffered items are in the output file, the state file holds
\* the index of the run, and it is removed after a normal completion.
FlushedAtExit(crawler) ==
    (r_variant = crawler /\ rpc = "done" /\ r_exit.buffer # <<>>)
        => /\ \A i \in Range(r_exit.buffer) : i \in Range(r_output)
           /\ IF r_exit.completed
              THEN ~r_state.exists
              ELSE r_state.exists /\ r_state.current_post_index = r_index

\* C36: when the fetch loop of src/v1/crawler.py exits with a non-empty
\* buffer, the buffered items are appended to the document store and the
\* progress index is updated before the run ends, and on normal completion
\* the state file is then removed.
C36_BufferFlushedAtExit == FlushedAtExit("v1")

\* C36: the same for src/v2/crawler.py, whose finally block passes
\* current_index to save_data
C36_BufferFlushedAtExitV2 == FlushedAtExit("v2")

\* C37: a flush that completes leaves in the output file every document the
\* last completed flush left there, in order, and the new batch at the end,
\* also when a write was interrupted in between.
C37_AppendOnly ==
    [][(dpc = "open" /\ dpc' = "idle")
          => LET now == ReadExisting(output_file')
             IN /\ IsDocument(output_file')
                /\ Prefix(now, Len(d_stored)) = d_stored
                /\ SubSeq(now, Len(now) - Len(d_batch) + 1, Len(now)) = d_batch]_vars

\* C37: a flush that completes appends its batch to what json.load reads
\* from the file when the flush starts
C37_AppendsToReadable ==
    [][(dpc = "open" /\ dpc' = "idle")
          => output_file' = OutputOf(ReadExisting(d_old) \o d_batch)]_vars

\* One iteration of the while loop of collect_post_urls, whatever upstream
\* answers: requests.get has timeout=30 and every sleep is finite, so an
\* iteration that has started ends.
CollectorIteration ==
    \/ RequestHttpError
    \/ RequestException
    \/ RequestEmpty
    \/ \E page \in Pages : RequestPage(page)
    \/ \E done \in SeqsUpTo(ListingPosts, MaxPageLen - 1) : \E atCursor \in BOOLEAN :
          RequestPageRaises(done, atCursor)
    \/ ExitOnTarget

\* the collector whose loop keeps taking iterations
SpecCollectorLive ==
    /\ InitCollectorOnly
    /\ [][NextCollector /\ runs' <= 1]_vars
    /\ WF_vars(CollectorIteration)

UrlsFileOf(file) ==
    IF ~file.exists THEN "missing"
    ELSE IF ~file.is_complete THEN "incomplete"
    ELSE IF file.collected_urls = <<>> THEN "empty"
    ELSE "complete"

\* load_url_list of a fetch loop without a range returns the list
FrontierAccepted == load_url_list(UrlsFileOf(state_file), None, None).ok

\* C39: when a collection run ends because upstream has no more data, with
\* at least one and fewer than max_posts entries, the fetch loop run after
\* it loads the persisted frontier (and goes on to attempt its entries).
C39_ExhaustedFrontierUsable ==
    (/\ variant = "v3" /\ cpc = "returned" /\ exit_reason = "exhausted"
     /\ Len(collected_urls) >= 1 /\ Len(collected_urls) < max_posts)
        => /\ state_file.exists
           /\ state_file.collected_urls = collected_urls
           /\ FrontierAccepted

\* C39: the frontier of a run that reached max_posts is loaded
C39_FullFrontierUsable ==
    (variant = "v3" /\ cpc = "returned" /\ exit_reason = "target"
     /\ ~HasCommentsMarker(subreddit_url))
        => state_file.exists /\ FrontierAccepted

\* index i of the frontier is in a range file
Covered(i) == \E k \in 1..Len(v_files) : v_files[k].start <= i /\ i <= v_files[k].end

\* the maximal runs of indexes of 0..top that no range file holds
UncoveredRuns(bottom, top) ==
    {<<a, b>> \in (bottom..top) \X (bottom..top) :
        /\ a <= b
        /\ \A i \in a..b : ~Covered(i)
        /\ (a = bottom \/ Covered(a - 1))
        /\ (b = top \/ Covered(b + 1))}

\* two range files share an index
SharedIndex ==
    \E j, k \in 1..Len(v_files) :
        /\ j # k
        /\ v_files[j].start <= v_files[k].end
        /\ v_files[k].start <= v_files[j].end

\* C40: for 0-based inclusive range files over a frontier of v_total
\* entries, given in any order and nesting, check_coverage reports exactly
\* the maximal uncovered runs of 0..v_total-1 as gaps (none when every index
\* is covered), and reports an overlap exactly when two ranges share an
\* index.
C40_CoverageExact ==
    (/\ vpc = "checked" /\ v_files # <<>>
     /\ \A k \in 1..Len(v_files) : v_files[k].end <= v_total - 1)
        => /\ Range(v_coverage.gaps) = UncoveredRuns(0, v_total - 1)
           /\ NoDuplicates(v_coverage.gaps)
           /\ (v_coverage.overlaps # <<>>) <=> SharedIndex

\* in the sorted list each range file reaches at least as far as the one
\* before it
NoNesting ==
    LET sorted_files == SortByStart(v_files)
    IN \A k \in 2..Len(sorted_files) : sorted_files[k - 1].end <= sorted_files[k].end

\* C40: what check_coverage computes: for range files that number the
\* entries 1..v_total and are not nested, the gaps are the maximal uncovered
\* runs of 1..v_total and an overlap is reported exactly when two ranges
\* share an index.
C40_CoverageOneBased ==
    (/\ vpc = "checked" /\ v_files # <<>> /\ NoNesting
     /\ \A k \in 1..Len(v_files) : v_files[k].start >= 1 /\ v_files[k].end <= v_total)
        => /\ Range(v_coverage.gaps) = UncoveredRuns(1, v_total)
           /\ NoDuplicates(v_coverage.gaps)
           /\ (v_coverage.overlaps # <<>>) <=> SharedIndex

\* C40: an overlap is reported exactly when two range files share an index,
\* whatever the order, the nesting and the numbering
C40_OverlapExact ==
    (vpc = "checked" /\ v_files # <<>>) => ((v_coverage.overlaps # <<>>) <=> SharedIndex)

====
